---- MODULE Spec2Model ----
(***************************************************************************)
(* A model of the H200 price index: the per-provider extraction pipelines  *)
(* (src/*_h200_scraper.py), the weighted index engine                      *)
(* (src/calculate_h200_index.py), the publisher (src/push_to_supabase.py)  *)
(* and the pipeline driver (src/run_h200_pipeline.py).                     *)
(*                                                                         *)
(* Money in the scrapers is counted in mills (1/1000 USD or EUR); a price  *)
(* string formatted with ":.2f" is a multiple of 10 mills.  A Python dict  *)
(* is a sequence of entries [k, v] in insertion order; a value is          *)
(* [sym, mills]: sym "$" or "E" (the euro sign) for a formatted price      *)
(* string, "" for a bare number (float or int) stored in the dict.         *)
(* Floating point values are modelled as exact rationals.                  *)
(***************************************************************************)
EXTENDS Integers, Sequences, FiniteSets, TLC

(***************************************************************************)
(* Bounds of the model.                                                    *)
(***************************************************************************)
\* the most regional variants one strategy result carries
MaxVariants == 2

(***************************************************************************)
(* Generic helpers.                                                        *)
(***************************************************************************)
Range(f) == {f[x] : x \in DOMAIN f}

RECURSIVE SumSeq(_)
SumSeq(s) == IF s = <<>> THEN 0 ELSE Head(s) + SumSeq(Tail(s))

\* n / d rounded to the nearest integer, ties to even (n >= 0, d > 0)
RoundHalfEven(n, d) ==
  LET q == n \div d
      r == n % d
  IN  IF 2 * r < d THEN q
      ELSE IF 2 * r > d THEN q + 1
      ELSE IF q % 2 = 0 THEN q ELSE q + 1

\* f"{x:.2f}" of x = num/den mills: the value the formatted string denotes
Fmt2(num, den) == 10 * RoundHalfEven(num, 10 * den)

Entry(k, sym, mills) == [k |-> k, v |-> [sym |-> sym, mills |-> mills]]

Keys(d) == {d[j].k : j \in DOMAIN d}

\* dict.update(e): one entry
Put(d, e) ==
  IF e.k \in Keys(d)
    THEN [j \in DOMAIN d |-> IF d[j].k = e.k THEN e ELSE d[j]]
    ELSE Append(d, e)

\* dict.update(other)
RECURSIVE Update(_, _)
Update(d, other) ==
  IF other = <<>> THEN d ELSE Update(Put(d, Head(other)), Tail(other))

\* key.startswith('_')
StartsWithUnderscore(k) ==
  k \in {"_total_price", "_gpu_count", "_secure_price", "_min_price",
         "_max_price", "_eur_price", "_exchange_rate"}

(***************************************************************************)
(* The provider scrapers: configuration.                                   *)
(***************************************************************************)
Scrapers ==
  {"AWS", "Azure", "GCP", "Oracle", "Akash", "AIME", "Civo",
   "ComputeThisHub", "PrimeIntellect"}

\* the scrapers that substitute known pricing and normalize
WithKnownPricing == {"AWS", "Azure", "GCP", "Oracle"}

\* methods = [...] of get_h200_prices, in list order
Methods(s) ==
  CASE s = "AWS" -> <<"AWS Pricing API", "Vantage Instance Pricing",
                      "EC2 Pricing Page Scraping", "Selenium Scraper">>
    [] s = "Azure" -> <<"Azure Retail Prices API",
                        "Azure Pricing Page Scraping", "Selenium Scraper">>
    [] s = "GCP" -> <<"GCP Pricing Page Scraping", "GCP Machine Types Page",
                      "Selenium Scraper">>
    [] s = "Oracle" -> <<"Oracle Compute Pricing Page", "Oracle GPU Page",
                         "Selenium Scraper">>
    [] s = "Akash" -> <<"Selenium Scraper", "Akash Website Scraping">>
    [] s = "AIME" -> <<"AIME Website Scraping", "Selenium Scraper">>
    [] s = "Civo" -> <<"Civo Website Scraping", "Selenium Scraper">>
    [] s = "ComputeThisHub" -> <<"ComputeThisHub Website Scraping",
                                 "Selenium Scraper">>
    [] s = "PrimeIntellect" -> <<"Selenium Scraper",
                                 "Prime Intellect Website Scraping">>

\* the plausibility band of _validate_prices, <<lo, hi>> in mills
Band(s) ==
  CASE s = "AWS" -> <<3000, 20000>>
    [] s = "Azure" -> <<5000, 25000>>
    [] s = "GCP" -> <<5000, 25000>>
    [] s = "Oracle" -> <<8000, 12000>>
    [] s = "Akash" -> <<1000, 10000>>
    [] s = "AIME" -> <<1000, 20000>>
    [] s = "Civo" -> <<1000, 10000>>
    [] s = "ComputeThisHub" -> <<5000, 50000>>
    [] s = "PrimeIntellect" -> <<500, 10000>>

\* _validate_prices skips keys that start with '_' in these scrapers only
SkipsUnderscore(s) == s \in {"Akash", "AIME", "Civo", "PrimeIntellect"}

\* _get_known_pricing
KnownPricing(s) ==
  CASE s = "AWS" -> <<Entry("P5en.48xlarge (US East N. Virginia)", "$", 7910),
                      Entry("P5en.48xlarge (US East Ohio)", "$", 7910),
                      Entry("P5en.48xlarge (US West Oregon)", "$", 7910)>>
    [] s = "Azure" -> <<Entry("ND96isr_H200_v5 (East US)", "$", 13780),
                        Entry("ND96isr_H200_v5 (North Central US)", "$", 12720),
                        Entry("ND96isr_H200_v5 (West US)", "$", 13780)>>
    [] s = "GCP" -> <<Entry("A3-Ultra (us-central1)", "$", 10850),
                      Entry("A3-Ultra (us-east4)", "$", 10850),
                      Entry("A3-Ultra (europe-west4)", "$", 11500)>>
    [] s = "Oracle" -> <<Entry("BM.GPU.H200.8 (All Regions)", "$", 10000)>>
    [] OTHER -> <<>>

\* the single key _normalize_prices returns
NormalizedKey(s) ==
  CASE s = "AWS" -> "P5en.48xlarge (AWS)"
    [] s = "Azure" -> "ND96isr_H200_v5 (Azure)"
    [] s = "GCP" -> "A3-Ultra (GCP)"
    [] s = "Oracle" -> "BM.GPU.H200.8 (Oracle)"
    [] OTHER -> "none"

(***************************************************************************)
(* What the extraction strategies can return.  The page content is the     *)
(* input: raw prices are drawn from small sets that satisfy the guards of  *)
(* the extractor that reads them.                                          *)
(***************************************************************************)
\* a price carried forward without the division
PerGpuUndivided(raw, gpus) == Fmt2(raw, 1)

\* per_gpu_price = price / gpus; f"${per_gpu_price:.2f}/hr", in mills
PerGpuPrice(raw, gpus) == Fmt2(raw, gpus)

\* {} or one entry: a raw price divided by the GPU count, formatted ":.2f"
SingleResults(key, sym, raws, gpus) ==
  {<<>>} \cup {<<Entry(key, sym, PerGpuPrice(p, gpus))>> : p \in raws}

\* one entry per region row, for the first n region keys, n <= MaxVariants
MultiResults(keys, raws, gpus) ==
  UNION {
    {[j \in 1..n |-> Entry(keys[j], "$", PerGpuPrice(f[j], gpus))] : f \in [1..n -> raws]}
    : n \in 0..MaxVariants }

AWSRegionKeys ==
  <<"P5en.48xlarge (US East)", "P5en.48xlarge (US West)",
    "P5en.48xlarge (Europe)", "P5en.48xlarge (Asia Pacific)">>

AzureRegionKeys ==
  <<"ND96isr_H200_v5 (East US)", "ND96isr_H200_v5 (North Central US)",
    "ND96isr_H200_v5 (West US)", "ND96isr_H200_v5 (southcentralus)">>

\* P5en.48xlarge instance prices read off a page, 40 < price < 120 (USD)
AWSInstancePrices == {63296, 96000}

\* unitPrice of an Azure Retail Prices item: any value > 0
AzureUnitPrices == {32000, 110240, 400000}

\* ND96isr instance prices read off the Azure page, 70 < price < 200
AzureInstancePrices == {110240}

\* per-GPU prices read off the GCP pages, 2 < price < 20
GCPPagePrices == {3720, 10850}

\* per-GPU prices read off the Oracle pages, 8 <= price <= 12 in the table
OraclePagePrices == {8000, 10000}

\* per-GPU prices of the single-GPU providers, inside the extractor's guard
AkashPagePrices == {2500}
CivoPagePrices == {2990}
AIMEPagePrices == {5000}
PrimeSpotPrices == {1990}
PrimeSecurePrices == {2490}

\* ComputeThisHub table row: total price of the row and its GPU count
CTHTotalPrices == {16000, 40000}
CTHGpuCounts == {1, 8}

\* _extract_from_table / the Selenium script of ComputeThisHub
CTHResults ==
  {<<>>} \cup
  {<<Entry("H200 Nx (ComputeThisHub)", "$", PerGpuPrice(t, n)),
     Entry("_total_price", "", t),
     Entry("_gpu_count", "", 1000 * n)>> : t \in CTHTotalPrices, n \in CTHGpuCounts}

\* _extract_prices / the Selenium script of Prime Intellect
PrimeResults(method) ==
  {<<>>} \cup
  {<<Entry("H200 SXM5 Spot (PrimeIntellect)", "$", Fmt2(p, 1)),
     Entry("_secure_price", "", q)>> : p \in PrimeSpotPrices, q \in PrimeSecurePrices}
  \cup (IF method = "Prime Intellect Website Scraping"
          THEN {<<Entry("_secure_price", "", q)>> : q \in PrimeSecurePrices}
          ELSE {})

\* _try_selenium_scraper / _extract_prices of Akash
AkashResults(method) ==
  IF method = "Selenium Scraper"
    THEN {<<>>} \cup
         {<<Entry("H200 SXM5 (Akash)", "$", Fmt2(p, 1)),
            Entry("_min_price", "", p), Entry("_max_price", "", p)>>
            : p \in AkashPagePrices}
    ELSE SingleResults("H200 SXM5 (Akash)", "$", AkashPagePrices, 1)

\* the dicts method m of scraper s can return
StrategyResults(s, m) ==
  CASE s = "AWS" ->
         (CASE m = "AWS Pricing API" -> {<<>>}
            [] m = "EC2 Pricing Page Scraping" ->
                 MultiResults(AWSRegionKeys, AWSInstancePrices, 8)
            [] OTHER ->
                 SingleResults("P5en.48xlarge (US East)", "$", AWSInstancePrices, 8))
    [] s = "Azure" ->
         (CASE m = "Azure Retail Prices API" ->
                 MultiResults(AzureRegionKeys, AzureUnitPrices, 8)
            [] OTHER ->
                 SingleResults("ND96isr_H200_v5 (Azure)", "$", AzureInstancePrices, 8))
    [] s = "GCP" -> SingleResults("A3-Ultra (GCP)", "$", GCPPagePrices, 1)
    [] s = "Oracle" -> SingleResults("BM.GPU.H200.8 (Oracle)", "$", OraclePagePrices, 1)
    [] s = "Akash" -> AkashResults(m)
    [] s = "AIME" -> SingleResults("H200 NVL 141GB (AIME)", "E", AIMEPagePrices, 1)
    [] s = "Civo" -> SingleResults("H200 Small 1x (Civo)", "$", CivoPagePrices, 1)
    [] s = "ComputeThisHub" -> CTHResults
    [] s = "PrimeIntellect" -> PrimeResults(m)

\* an invocation of a strategy either raises or returns a dict
Outcomes(s, m) ==
  {[raised |-> TRUE, prices |-> <<>>]} \cup
  {[raised |-> FALSE, prices |-> d] : d \in StrategyResults(s, m)}

(***************************************************************************)
(* The extraction pipeline: get_h200_prices and its helpers.               *)
(***************************************************************************)
\* re.search(r'\$?([0-9.]+)', str(price_str)): the number, with or without
\* a currency sign in front (AIME: r'€?([0-9.,]+)')
ParsedNumber(v) == v.mills

\* re.search(r'\$([0-9.]+)', price_str): only a string with a dollar sign
HasDollarPrice(v) == v.sym = "$"

\* a band that takes its two edges in
InBandInclusive(s, price) == Band(s)[1] <= price /\ price <= Band(s)[2]

\* lo < price < hi
InBand(s, price) == Band(s)[1] < price /\ price < Band(s)[2]

\* _validate_prices: True at the first entry inside the band
RECURSIVE _validate_prices(_, _)
_validate_prices(s, prices) ==
  IF prices = <<>> THEN FALSE
  ELSE LET e == Head(prices)
       IN  IF SkipsUnderscore(s) /\ StartsWithUnderscore(e.k)
             THEN _validate_prices(s, Tail(prices))
           ELSE IF InBand(s, ParsedNumber(e.v)) THEN TRUE
           ELSE _validate_prices(s, Tail(prices))

\* the per_gpu_prices list of _normalize_prices
RECURSIVE PerGpuPrices(_)
PerGpuPrices(prices) ==
  IF prices = <<>> THEN <<>>
  ELSE IF HasDollarPrice(Head(prices).v)
         THEN <<Head(prices).v.mills>> \o PerGpuPrices(Tail(prices))
         ELSE PerGpuPrices(Tail(prices))

\* _normalize_prices: one entry, the average of all entries
_normalize_prices(s, prices) ==
  LET per_gpu_prices == PerGpuPrices(prices)
  IN  IF prices = <<>> \/ per_gpu_prices = <<>> THEN <<>>
      ELSE <<Entry(NormalizedKey(s), "$",
                   Fmt2(SumSeq(per_gpu_prices), Len(per_gpu_prices)))>>

\* the EUR -> USD loop of AIME's get_h200_prices; rate is scaled by 10000
RECURSIVE ConvertEUR(_, _, _)
ConvertEUR(h200_prices, prices, rate) ==
  IF prices = <<>> THEN h200_prices
  ELSE LET e == Head(prices)
       IN  IF StartsWithUnderscore(e.k)
             THEN ConvertEUR(h200_prices, Tail(prices), rate)
             ELSE ConvertEUR(
                    Put(Put(Put(h200_prices,
                                Entry(e.k, "$", Fmt2(e.v.mills * rate, 10000))),
                            Entry("_eur_price", "", e.v.mills)),
                        Entry("_exchange_rate", "", rate)),
                    Tail(prices), rate)

\* a validated result merged over the static table
AcceptPricesOverKnown(s, h200_prices, prices, rate) ==
  Update(IF s \in WithKnownPricing THEN KnownPricing(s) ELSE h200_prices,
         IF s = "AIME" THEN ConvertEUR(<<>>, prices, rate) ELSE prices)

\* the body of "if prices and self._validate_prices(prices):"
AcceptPrices(s, h200_prices, prices, rate) ==
  IF s = "AIME" THEN ConvertEUR(h200_prices, prices, rate)
  ELSE Update(h200_prices, prices)

\* a loop without the "break": it goes on with the next method
AfterValidatedNoBreak(s, idx) == idx + 1

\* "break" after a validated result: the loop index jumps past the list
AfterValidated(s, idx) == Len(Methods(s)) + 1

\* a loop without the try/except: the exception leaves get_h200_prices
AfterExceptionUncaught(s, idx) == [escaped |-> TRUE, idx |-> idx]

\* "except Exception as e: ... continue": the run goes on with the next method
AfterException(s, idx) == [escaped |-> FALSE, idx |-> idx + 1]

\* the code after the loop: known pricing and normalization, or {}
AfterLoop(s, h200_prices) ==
  IF s \in WithKnownPricing
    THEN _normalize_prices(s, IF h200_prices = <<>> THEN KnownPricing(s)
                               ELSE h200_prices)
    ELSE h200_prices

\* save_to_json: the price_per_hour written to the provider's record file
RECURSIVE SavedPrice(_, _, _)
SavedPrice(s, prices, sofar) ==
  IF prices = <<>> THEN sofar
  ELSE LET e == Head(prices)
           hit == HasDollarPrice(e.v)
                  /\ (s \in WithKnownPricing \/ ~StartsWithUnderscore(e.k))
       IN  IF hit /\ s \in WithKnownPricing \cup {"Civo"}
             THEN e.v.mills
           ELSE SavedPrice(s, Tail(prices), IF hit THEN e.v.mills ELSE sofar)

\* the answers of the three exchange-rate APIs: 0 is a failure or an
\* unusable body, otherwise rates.USD scaled by 10000
RateAnswers == {0, 10800, 11000}

\* every API is queried and the last usable answer wins
LastRate(answers, n) ==
  LET usable == {i \in DOMAIN answers : answers[i] # 0}
  IN  [rate |-> IF usable = {} THEN 0
                ELSE answers[CHOOSE i \in usable : \A j \in usable : j <= i],
       queried |-> n + Len(answers)]

\* get_eur_to_usd_rate: the first usable answer in list order, and how many
\* APIs were queried
RECURSIVE FirstRate(_, _)
FirstRate(answers, n) ==
  IF answers = <<>> THEN [rate |-> 0, queried |-> n]
  ELSE IF Head(answers) # 0 THEN [rate |-> Head(answers), queried |-> n + 1]
  ELSE FirstRate(Tail(answers), n + 1)

get_eur_to_usd_rate(answers) == FirstRate(answers, 0)

(***************************************************************************)
(* State.                                                                  *)
(***************************************************************************)
VARIABLES
  scraper,      \* the scraper this run is of
  scraperPc,    \* "rate" | "loop" | "returned" | "done" | "escaped"
  idx,          \* position of the for loop in methods (1-based)
  called,       \* the methods invoked so far, in order
  results,      \* what each invocation produced
  h200_prices,  \* the local dict of get_h200_prices
  eur_to_usd,   \* AIME: the exchange rate, 0 for None
  rateQueried,  \* AIME: how many rate APIs were queried
  exchange_answers, \* AIME: what the rate APIs answer, in list order
  returned,     \* the dict get_h200_prices returned
  record,       \* price_per_hour in <provider>_h200_prices.json, -1: no file
  indexPc,             \* calculate_h200_index.main: "start" | "loaded" |
                       \* "categorized" | "discounted" | "saved" | "nodata" |
                       \* "crashed"
  combined_file,       \* providers of h200_combined_prices.json, cents
  prices,              \* the dict load_prices_from_combined returned
  hyperscaler_prices,  \* categorize_providers: canonical name -> cents
  neocloud_prices,     \* categorize_providers: provider -> cents
  assigned,            \* per input provider, the branch categorize took
  hyperscaler_data,    \* what apply_hyperscaler_discounts returned
  index_data,          \* what calculate_weighted_index computed
  report_file,         \* h200_weighted_index.json: <<>> or <<report>>
  pipePc,       \* run_h200_pipeline.main: "calc" | "push" | "summary" | "done"
  pushPc,       \* push_to_supabase.main: "load" | "validate" | "insert" |
                \* "exit" | "done"
  history,      \* index_price of the rows of h200_index_prices, oldest first
  validation,   \* how validate_price answered
  inserted,     \* the index_price of every insert issued by this run
  success,      \* what push_to_supabase returned: "none" | "True" | "False"
  pushExit,     \* exit status of push_to_supabase.py, -1 while running
  pipeResults,  \* the results dict of the pipeline
  pipeExit,     \* exit status of run_h200_pipeline.py, -1 while running
  runPc,        \* run_all_h200_scrapers.main: "find" | "scrapers" | "done"
  scrapers,     \* what find_all_scrapers returned, sorted
  runIdx,       \* position of the for loop of run_all_scrapers (1-based)
  runResults,   \* the results dict of run_all_scrapers: scraper -> bool
  runOutcomes,  \* how each subprocess of run_scraper ended, in order
  price_files,  \* <provider>_h200_prices.json on disk: price_per_hour in
                \* mills per scraper, -1: no file
  fnPc,         \* a single call of a method: "call" | "done"
  fn,           \* the method called
  fnArgs,       \* its arguments
  fnResult      \* <<>> before it returns, <<value>> after

scrapeVars ==
  <<scraper, scraperPc, idx, called, results, h200_prices, eur_to_usd,
    rateQueried, exchange_answers, returned, record>>

indexVars ==
  <<indexPc, combined_file, prices, hyperscaler_prices, neocloud_prices,
    assigned, hyperscaler_data, index_data, report_file>>

publishVars ==
  <<pipePc, pushPc, history, validation, inserted, success, pushExit,
    pipeResults, pipeExit>>

runnerVars ==
  <<runPc, scrapers, runIdx, runResults, runOutcomes, price_files>>

fnVars == <<fnPc, fn, fnArgs, fnResult>>

vars == <<scrapeVars, indexVars, publishVars, runnerVars, fnVars>>

\* no scraper is running
ScrapeIdle ==
  /\ scraper = "none"
  /\ scraperPc = "idle"
  /\ idx = 1
  /\ called = <<>>
  /\ results = <<>>
  /\ h200_prices = <<>>
  /\ eur_to_usd = 0
  /\ rateQueried = 0
  /\ exchange_answers = <<>>
  /\ returned = <<>>
  /\ record = -1

\* the locals of calculate_h200_index.main before its first statement
IndexLocals ==
  /\ prices = <<>>
  /\ hyperscaler_prices = <<>>
  /\ neocloud_prices = <<>>
  /\ assigned = <<>>
  /\ hyperscaler_data = <<>>
  /\ index_data = <<>>

\* the index engine is not running
IndexIdle ==
  /\ indexPc = "idle"
  /\ combined_file = <<>>
  /\ report_file = <<>>
  /\ IndexLocals

\* the locals of push_to_supabase.main and run_h200_pipeline.main before
\* their first statements
PublishLocals ==
  /\ validation = "none"
  /\ inserted = <<>>
  /\ success = "none"
  /\ pushExit = -1
  /\ pipeResults = <<>>
  /\ pipeExit = -1

\* neither the pipeline nor the publisher is running
PublishIdle ==
  /\ pipePc = "idle"
  /\ pushPc = "idle"
  /\ history = <<>>
  /\ PublishLocals

\* the runner of the scrapers is not running
RunnerIdle ==
  /\ runPc = "idle"
  /\ scrapers = <<>>
  /\ runIdx = 1
  /\ runResults = <<>>
  /\ runOutcomes = <<>>
  /\ price_files = <<>>

\* no single method is being called
FnIdle ==
  /\ fnPc = "idle"
  /\ fn = "none"
  /\ fnArgs = <<>>
  /\ fnResult = <<>>

(***************************************************************************)
(* One run of a provider scraper: main() -> get_h200_prices().             *)
(***************************************************************************)
ScrapeInit ==
  /\ scraper \in Scrapers
  /\ scraperPc = IF scraper = "AIME" THEN "rate" ELSE "loop"
  /\ idx = 1
  /\ called = <<>>
  /\ results = <<>>
  /\ h200_prices = <<>>
  /\ eur_to_usd = 0
  /\ rateQueried = 0
  /\ exchange_answers = <<>>
  /\ returned = <<>>
  /\ record = -1
  /\ IndexIdle
  /\ RunnerIdle
  /\ FnIdle
  /\ PublishIdle

\* AIME: eur_to_usd = self.get_eur_to_usd_rate(); return {} without a rate
GetRate ==
  /\ scraperPc = "rate"
  /\ \E answers \in [1..3 -> RateAnswers] :
       LET r == get_eur_to_usd_rate(answers)
       IN  /\ eur_to_usd' = r.rate
           /\ rateQueried' = r.queried
           /\ exchange_answers' = answers
           /\ scraperPc' = IF r.rate = 0 THEN "returned" ELSE "loop"
  /\ UNCHANGED <<scraper, idx, called, results, h200_prices, returned, record>>
  /\ UNCHANGED <<indexVars, publishVars>>
  /\ UNCHANGED <<runnerVars, fnVars>>

\* one iteration of "for method_name, method_func in methods:"
TryMethod ==
  /\ scraperPc = "loop"
  /\ idx <= Len(Methods(scraper))
  /\ \E o \in Outcomes(scraper, Methods(scraper)[idx]) :
       /\ called' = Append(called, Methods(scraper)[idx])
       /\ results' = Append(results, o)
       /\ IF o.raised
            THEN /\ idx' = AfterException(scraper, idx).idx
                 /\ scraperPc' = IF AfterException(scraper, idx).escaped
                                   THEN "escaped" ELSE "loop"
                 /\ UNCHANGED h200_prices
          ELSE IF o.prices # <<>> /\ _validate_prices(scraper, o.prices)
            THEN /\ h200_prices' =
                      AcceptPrices(scraper, h200_prices, o.prices, eur_to_usd)
                 /\ idx' = AfterValidated(scraper, idx)
                 /\ UNCHANGED scraperPc
          ELSE /\ idx' = idx + 1
               /\ UNCHANGED <<scraperPc, h200_prices>>
  /\ UNCHANGED <<scraper, eur_to_usd, rateQueried, exchange_answers, returned,
                 record>>
  /\ UNCHANGED <<indexVars, publishVars>>
  /\ UNCHANGED <<runnerVars, fnVars>>

\* the loop is over: fallback and normalization, get_h200_prices returns
ReturnPrices ==
  /\ scraperPc = "loop"
  /\ idx > Len(Methods(scraper))
  /\ returned' = AfterLoop(scraper, h200_prices)
  /\ scraperPc' = "returned"
  /\ UNCHANGED <<scraper, idx, called, results, h200_prices, eur_to_usd,
                 rateQueried, exchange_answers, record>>
  /\ UNCHANGED <<indexVars, publishVars>>
  /\ UNCHANGED <<runnerVars, fnVars>>

\* main(): "if prices: scraper.save_to_json(prices)"
SaveRecord ==
  /\ scraperPc = "returned"
  /\ record' = IF returned # <<>> THEN SavedPrice(scraper, returned, 0) ELSE record
  /\ scraperPc' = "done"
  /\ UNCHANGED <<scraper, idx, called, results, h200_prices, eur_to_usd,
                 rateQueried, exchange_answers, returned>>
  /\ UNCHANGED <<indexVars, publishVars>>
  /\ UNCHANGED <<runnerVars, fnVars>>

ScrapeNext == GetRate \/ TryMethod \/ ReturnPrices \/ SaveRecord

SpecScrape == ScrapeInit /\ [][ScrapeNext]_vars

(***************************************************************************)
(* Exact rational arithmetic for the index engine: a value is <<n, d>>     *)
(* with d > 0, kept in lowest terms.                                       *)
(***************************************************************************)
RECURSIVE GCD(_, _)
GCD(a, b) == IF b = 0 THEN a ELSE GCD(b, a % b)

Abs(x) == IF x < 0 THEN -x ELSE x

Rat(n, d) ==
  LET g == GCD(Abs(n), d)
  IN  IF n = 0 THEN <<0, 1>> ELSE <<n \div g, d \div g>>

RMul(a, b) ==
  LET x == Rat(a[1], b[2])
      y == Rat(b[1], a[2])
  IN  Rat(x[1] * y[1], x[2] * y[2])

RDiv(a, b) == RMul(a, <<b[2], b[1]>>)

RAdd(a, b) ==
  LET g == GCD(a[2], b[2])
  IN  Rat(a[1] * (b[2] \div g) + b[1] * (a[2] \div g), (a[2] \div g) * b[2])

RSub(a, b) == RAdd(a, <<-b[1], b[2]>>)

\* a < b, compared over the common denominator
RLess(a, b) ==
  LET g == GCD(a[2], b[2])
  IN  a[1] * (b[2] \div g) < b[1] * (a[2] \div g)

RLeq(a, b) == ~RLess(b, a)

\* round(x, digits) of x = n/d >= 0, as an integer count of 10^-digits:
\* long division, then ties to even
RECURSIVE LongDiv(_, _, _, _)
LongDiv(q, r, d, digits) ==
  IF digits = 0 THEN [q |-> q, r |-> r]
  ELSE LongDiv(10 * q + ((10 * r) \div d), (10 * r) % d, d, digits - 1)

Round(x, digits) ==
  LET ld == LongDiv(x[1] \div x[2], x[1] % x[2], x[2], digits)
  IN  IF 2 * ld.r < x[2] THEN ld.q
      ELSE IF 2 * ld.r > x[2] THEN ld.q + 1
      ELSE IF ld.q % 2 = 0 THEN ld.q ELSE ld.q + 1

(***************************************************************************)
(* Strings.  A provider id is a TLA+ string; Chars gives its characters,   *)
(* on which lower(), strip() and the substring test are computed.          *)
(***************************************************************************)
Chars(name) ==
  CASE name = "AWS" -> <<"A", "W", "S">>
    [] name = "Amazon" -> <<"A", "m", "a", "z", "o", "n">>
    [] name = "Azure" -> <<"A", "z", "u", "r", "e">>
    [] name = " Microsoft Azure " ->
         <<" ", "M", "i", "c", "r", "o", "s", "o", "f", "t", " ",
           "A", "z", "u", "r", "e", " ">>
    [] name = "GCP" -> <<"G", "C", "P">>
    [] name = "Google Cloud" ->
         <<"G", "o", "o", "g", "l", "e", " ", "C", "l", "o", "u", "d">>
    [] name = "Oracle" -> <<"O", "r", "a", "c", "l", "e">>
    [] name = "CoreWeave" -> <<"C", "o", "r", "e", "W", "e", "a", "v", "e">>
    [] name = "Velocity" -> <<"V", "e", "l", "o", "c", "i", "t", "y">>
    [] name = " Oracle Azure " ->
         <<" ", "O", "r", "a", "c", "l", "e", " ", "A", "z", "u", "r", "e", " ">>
    [] name = "AIME" -> <<"A", "I", "M", "E">>
    [] name = "Akash" -> <<"A", "k", "a", "s", "h">>
    [] name = "Civo" -> <<"C", "i", "v", "o">>
    [] name = "ComputeThisHub" ->
         <<"C", "o", "m", "p", "u", "t", "e", "T", "h", "i", "s", "H", "u", "b">>
    [] name = "PrimeIntellect" ->
         <<"P", "r", "i", "m", "e", "I", "n", "t", "e", "l", "l", "e", "c", "t">>
    [] name = "Prime Intellect" ->
         <<"P", "r", "i", "m", "e", " ", "I", "n", "t", "e", "l", "l", "e", "c", "t">>
    [] name = "aws" -> <<"a", "w", "s">>
    [] name = "amazon" -> <<"a", "m", "a", "z", "o", "n">>
    [] name = "azure" -> <<"a", "z", "u", "r", "e">>
    [] name = "microsoft" -> <<"m", "i", "c", "r", "o", "s", "o", "f", "t">>
    [] name = "google" -> <<"g", "o", "o", "g", "l", "e">>
    [] name = "gcp" -> <<"g", "c", "p">>
    [] name = "google_cloud" ->
         <<"g", "o", "o", "g", "l", "e", "_", "c", "l", "o", "u", "d">>
    [] name = "google cloud" ->
         <<"g", "o", "o", "g", "l", "e", " ", "c", "l", "o", "u", "d">>
    [] name = "oracle" -> <<"o", "r", "a", "c", "l", "e">>
    [] name = "oci" -> <<"o", "c", "i">>
    [] name = "coreweave" -> <<"c", "o", "r", "e", "w", "e", "a", "v", "e">>
    [] name = "core_weave" -> <<"c", "o", "r", "e", "_", "w", "e", "a", "v", "e">>
    [] name = "core weave" -> <<"c", "o", "r", "e", " ", "w", "e", "a", "v", "e">>

UpperCase ==
  <<"A", "B", "C", "D", "E", "F", "G", "H", "I", "J", "K", "L", "M",
    "N", "O", "P", "Q", "R", "S", "T", "U", "V", "W", "X", "Y", "Z">>

LowerCase ==
  <<"a", "b", "c", "d", "e", "f", "g", "h", "i", "j", "k", "l", "m",
    "n", "o", "p", "q", "r", "s", "t", "u", "v", "w", "x", "y", "z">>

LowerChar(c) ==
  IF \E j \in 1..26 : UpperCase[j] = c
    THEN LowerCase[CHOOSE j \in 1..26 : UpperCase[j] = c]
    ELSE c

\* str.lower()
Lower(cs) == [j \in DOMAIN cs |-> LowerChar(cs[j])]

\* str.strip()
RECURSIVE LStrip(_)
LStrip(cs) ==
  IF cs # <<>> /\ Head(cs) = " " THEN LStrip(Tail(cs)) ELSE cs

RECURSIVE RStrip(_)
RStrip(cs) ==
  IF cs # <<>> /\ cs[Len(cs)] = " " THEN RStrip(SubSeq(cs, 1, Len(cs) - 1)) ELSE cs

Strip(cs) == RStrip(LStrip(cs))

\* the test "alias == provider_lower" a stricter matcher would make
AliasEquals(alias, cs) == Chars(alias) = cs

\* "alias in provider_lower"
AliasIn(alias, cs) ==
  LET a == Chars(alias)
  IN  \E j \in 1..(Len(cs) - Len(a) + 1) : SubSeq(cs, j, j + Len(a) - 1) = a

(***************************************************************************)
(* The index engine: configuration of H200IndexCalculator.__init__.        *)
(***************************************************************************)
\* discount_min and discount_max, in percent
discount_min == 70
discount_max == 90

\* discounted_weight and full_price_weight, in percent
discounted_weight == 80
full_price_weight == 20

\* hyperscaler_total_weight and neocloud_total_weight, in percent
hyperscaler_total_weight == 65
neocloud_total_weight == 35

Pct(x) == Rat(x, 100)

\* hyperscaler_weights, in thousandths
hyperscaler_weights(name) ==
  CASE name = "AWS" -> 410
    [] name = "Azure" -> 330
    [] name = "Google Cloud" -> 170
    [] name = "Oracle" -> 80
    [] name = "CoreWeave" -> 10

HyperscalerNames == {"AWS", "Azure", "Google Cloud", "Oracle", "CoreWeave"}

\* the keys of neocloud_weights other than "default"
NeocloudNames ==
  {"Lambda Labs", "Nebius", "Crusoe", "Vultr", "RunPod", "Vast.ai",
   "FluidStack", "Hyperstack", "Civo", "Shadeform", "Spheron", "Akash",
   "Prime Intellect", "Valdi", "Verda", "Fal.ai", "GMI Cloud", "JarvisLabs",
   "Hyperbolic", "IonStream", "AIME", "AceCloud", "LeaderGPU",
   "ComputeThisHub", "Siam.ai", "Sesterce", "Ori"}

\* neocloud_weights.get(provider, neocloud_weights.get("default", 0.005)),
\* in thousandths
neocloud_weights(name) ==
  CASE name = "Lambda Labs" -> 120
    [] name = "Nebius" -> 100
    [] name = "Crusoe" -> 80
    [] name = "Vultr" -> 70
    [] name = "RunPod" -> 60
    [] name \in {"Vast.ai", "FluidStack"} -> 50
    [] name \in {"Hyperstack", "Civo", "Shadeform"} -> 40
    [] name \in {"Spheron", "Akash", "Prime Intellect", "Valdi"} -> 30
    [] name \in {"Verda", "Fal.ai"} -> 25
    [] name \in {"GMI Cloud", "JarvisLabs", "Hyperbolic"} -> 20
    [] name \in {"IonStream", "AIME"} -> 15
    [] name \in {"AceCloud", "LeaderGPU", "ComputeThisHub", "Siam.ai",
                 "Sesterce", "Ori"} -> 10
    [] OTHER -> 5

\* hyperscaler_aliases of categorize_providers, in table order
hyperscaler_aliases ==
  << [name |-> "AWS", aliases |-> <<"aws", "amazon">>],
     [name |-> "Azure", aliases |-> <<"azure", "microsoft">>],
     [name |-> "Google Cloud",
      aliases |-> <<"google", "gcp", "google_cloud", "google cloud">>],
     [name |-> "Oracle", aliases |-> <<"oracle", "oci">>],
     [name |-> "CoreWeave",
      aliases |-> <<"coreweave", "core_weave", "core weave">>] >>


(***************************************************************************)
(* The index engine: the methods of H200IndexCalculator.  A price dict is  *)
(* a sequence of [k, v] with v in cents (the combined record rounds to 2   *)
(* decimals); computed prices are rationals in USD.                        *)
(***************************************************************************)
\* load_prices_from_combined: the entries with price_per_hour > 0
RECURSIVE load_prices_from_combined(_)
load_prices_from_combined(providers) ==
  IF providers = <<>> THEN <<>>
  ELSE IF Head(providers).v > 0
         THEN <<Head(providers)>> \o load_prices_from_combined(Tail(providers))
         ELSE load_prices_from_combined(Tail(providers))

\* "for alias in aliases: if alias in provider_lower: ... break"
RECURSIVE AnyAlias(_, _)
AnyAlias(aliases, provider_lower) ==
  IF aliases = <<>> THEN FALSE
  ELSE IF AliasIn(Head(aliases), provider_lower) THEN TRUE
  ELSE AnyAlias(Tail(aliases), provider_lower)

\* "for hs_name, aliases in hyperscaler_aliases.items(): ...": the matched
\* hyperscaler, "None" without a match
RECURSIVE MatchedHyperscaler(_, _)
MatchedHyperscaler(table, provider_lower) ==
  IF table = <<>> THEN "None"
  ELSE IF AnyAlias(Head(table).aliases, provider_lower) THEN Head(table).name
  ELSE MatchedHyperscaler(Tail(table), provider_lower)

\* categorize_providers: the two dicts, and per input provider the branch taken
RECURSIVE CategorizeLoop(_, _)
CategorizeLoop(provider_prices, acc) ==
  IF provider_prices = <<>> THEN acc
  ELSE LET provider == Head(provider_prices).k
           price == Head(provider_prices).v
           provider_lower == Strip(Lower(Chars(provider)))
           matched_hyperscaler == MatchedHyperscaler(hyperscaler_aliases, provider_lower)
       IN  IF matched_hyperscaler # "None"
             THEN CategorizeLoop(Tail(provider_prices),
                    [acc EXCEPT
                       !.hyperscaler_prices =
                          Put(@, [k |-> matched_hyperscaler, v |-> price]),
                       !.assigned =
                          Append(@, [provider |-> provider, cohort |-> "Hyperscaler",
                                     key |-> matched_hyperscaler])])
             ELSE CategorizeLoop(Tail(provider_prices),
                    [acc EXCEPT
                       !.neocloud_prices = Put(@, [k |-> provider, v |-> price]),
                       !.assigned =
                          Append(@, [provider |-> provider, cohort |-> "Neocloud",
                                     key |-> provider])])

categorize_providers(provider_prices) ==
  CategorizeLoop(provider_prices,
    [hyperscaler_prices |-> <<>>, neocloud_prices |-> <<>>, assigned |-> <<>>])

\* a blend that charges the list price
BlendUndiscounted(discounted_price, original_price) == original_price

\* a blend with the two weights exchanged
BlendSwapped(discounted_price, original_price) ==
  RAdd(RMul(discounted_price, Pct(full_price_weight)),
       RMul(original_price, Pct(discounted_weight)))

\* effective_price = discounted_price * 0.80 + original_price * 0.20
Blend(discounted_price, original_price) ==
  RAdd(RMul(discounted_price, Pct(discounted_weight)),
       RMul(original_price, Pct(full_price_weight)))

\* the body of the loop of apply_hyperscaler_discounts, discount_rate in percent
DiscountEntry(provider, cents, discount_rate) ==
  LET original_price == Rat(cents, 100)
      discounted_price == RMul(original_price, RSub(<<1, 1>>, Pct(discount_rate)))
  IN  [k |-> provider,
       original_price |-> original_price,
       discount_rate |-> discount_rate,
       discounted_price |-> discounted_price,
       effective_price |-> Blend(discounted_price, original_price)]

\* apply_hyperscaler_discounts; rates[j] is the rate random.uniform gave entry j
apply_hyperscaler_discounts(hs_prices, rates) ==
  [j \in DOMAIN hs_prices |->
     DiscountEntry(hs_prices[j].k, hs_prices[j].v, rates[j])]

\* the hyperscaler loop of calculate_weighted_index
RECURSIVE HyperscalerLoop(_, _)
HyperscalerLoop(hs_data, acc) ==
  IF hs_data = <<>> THEN acc
  ELSE LET data == Head(hs_data)
       IN  IF data.k \in HyperscalerNames
             THEN LET individual_weight == Rat(hyperscaler_weights(data.k), 1000)
                      absolute_weight ==
                        RMul(individual_weight, Pct(hyperscaler_total_weight))
                      weighted_price == RMul(data.effective_price, absolute_weight)
                  IN  HyperscalerLoop(Tail(hs_data),
                        [sum |-> RAdd(acc.sum, weighted_price),
                         used |-> RAdd(acc.used, absolute_weight),
                         details |-> Append(acc.details,
                           [provider |-> data.k,
                            price |-> data.effective_price,
                            relative_weight |-> individual_weight,
                            absolute_weight |-> absolute_weight,
                            weighted_contribution |-> weighted_price])])
             ELSE HyperscalerLoop(Tail(hs_data), acc)

\* a neocloud loop that discounts the prices like those of the hyperscalers
RECURSIVE NeocloudLoopDiscounted(_, _)
NeocloudLoopDiscounted(nc_prices, acc) ==
  IF nc_prices = <<>> THEN acc
  ELSE LET provider == Head(nc_prices).k
           price == DiscountEntry(provider, Head(nc_prices).v, 80).effective_price
           individual_weight == Rat(neocloud_weights(provider), 1000)
           absolute_weight == RMul(individual_weight, Pct(neocloud_total_weight))
           weighted_price == RMul(price, absolute_weight)
       IN  NeocloudLoopDiscounted(Tail(nc_prices),
             [sum |-> RAdd(acc.sum, weighted_price),
              used |-> RAdd(acc.used, absolute_weight),
              details |-> Append(acc.details,
                [provider |-> provider,
                 price |-> price,
                 relative_weight |-> individual_weight,
                 absolute_weight |-> absolute_weight,
                 weighted_contribution |-> weighted_price])])

\* the neocloud loop of calculate_weighted_index
RECURSIVE NeocloudLoop(_, _)
NeocloudLoop(nc_prices, acc) ==
  IF nc_prices = <<>> THEN acc
  ELSE LET provider == Head(nc_prices).k
           price == Rat(Head(nc_prices).v, 100)
           individual_weight == Rat(neocloud_weights(provider), 1000)
           absolute_weight == RMul(individual_weight, Pct(neocloud_total_weight))
           weighted_price == RMul(price, absolute_weight)
           next ==
             [sum |-> RAdd(acc.sum, weighted_price),
              used |-> RAdd(acc.used, absolute_weight),
              details |-> Append(acc.details,
                [provider |-> provider,
                 price |-> price,
                 relative_weight |-> individual_weight,
                 absolute_weight |-> absolute_weight,
                 weighted_contribution |-> weighted_price])]
           \* the accumulators are computed in each iteration, not at the end
       IN  IF next = next THEN NeocloudLoop(Tail(nc_prices), next) ELSE acc

\* a cohort sum left as accumulated
NotNormalized(weighted_sum, weight_used, total_weight) == weighted_sum

\* "if 0 < used < total: weighted_sum *= total / used"
Normalize(weighted_sum, weight_used, total_weight) ==
  IF RLess(<<0, 1>>, weight_used) /\ RLess(weight_used, total_weight)
    THEN RMul(weighted_sum, RDiv(total_weight, weight_used))
    ELSE weighted_sum

\* an index that leaves the neocloud component out
FinalIndexHyperscalerOnly(hyperscaler_weighted_sum, neocloud_weighted_sum) ==
  hyperscaler_weighted_sum

\* final_index = hyperscaler_weighted_sum + neocloud_weighted_sum
FinalIndex(hyperscaler_weighted_sum, neocloud_weighted_sum) ==
  RAdd(hyperscaler_weighted_sum, neocloud_weighted_sum)

\* accumulators that do not start at 0
LoopStartBiased == [sum |-> <<1, 1>>, used |-> <<0, 1>>, details |-> <<>>]

\* hyperscaler_weighted_sum = 0; hyperscaler_details = [];
\* total_hyperscaler_weight_used = 0 (likewise for the neoclouds)
LoopStart == [sum |-> <<0, 1>>, used |-> <<0, 1>>, details |-> <<>>]

\* calculate_weighted_index: the two cohort sums and the report; the rounded
\* report fields are integers, the index in cents, the components in 10^-4 USD
calculate_weighted_index(hs_data, nc_prices) ==
  LET h == HyperscalerLoop(hs_data, LoopStart)
      n == NeocloudLoop(nc_prices, LoopStart)
      hyperscaler_weighted_sum ==
        Normalize(h.sum, h.used, Pct(hyperscaler_total_weight))
      neocloud_weighted_sum ==
        Normalize(n.sum, n.used, Pct(neocloud_total_weight))
      final_index == FinalIndex(hyperscaler_weighted_sum, neocloud_weighted_sum)
  IN  [hyperscaler_weighted_sum |-> hyperscaler_weighted_sum,
       neocloud_weighted_sum |-> neocloud_weighted_sum,
       hyperscaler_weight_used |-> h.used,
       neocloud_weight_used |-> n.used,
       report |->
         [final_index_price |-> Round(final_index, 2),
          hyperscaler_component |-> Round(hyperscaler_weighted_sum, 4),
          neocloud_component |-> Round(neocloud_weighted_sum, 4),
          hyperscaler_count |-> Len(hs_data),
          neocloud_count |-> Len(nc_prices),
          hyperscaler_details |-> h.details,
          neocloud_details |-> n.details]]


(***************************************************************************)
(* One run of the index engine: calculate_h200_index.main().               *)
(***************************************************************************)
MaxProviders == 5

\* the providers a combined record is drawn from, in file order, with
\* price_per_hour in cents
ProviderPool ==
  << [k |-> "AIME", v |-> 540],
     [k |-> "AWS", v |-> 791],
     [k |-> "Amazon", v |-> 1000],
     [k |-> "Azure", v |-> 1343],
     [k |-> "Civo", v |-> 299],
     [k |-> "CoreWeave", v |-> 625],
     [k |-> "GCP", v |-> 1107],
     [k |-> "Oracle", v |-> 1000],
     [k |-> " Oracle Azure ", v |-> 900],
     [k |-> "PrimeIntellect", v |-> 199],
     [k |-> "Velocity", v |-> 350] >>

\* the combined records with at most MaxProviders providers
CombinedFiles ==
  { SelectSeq(ProviderPool, LAMBDA e : e \in {ProviderPool[j] : j \in S}) :
      S \in {T \in SUBSET DOMAIN ProviderPool : Cardinality(T) <= MaxProviders} }

\* values random.uniform(discount_min, discount_max) can return, in percent
DiscountRates == {discount_min, 80, discount_max}

IndexInit ==
  /\ ScrapeIdle
  /\ RunnerIdle
  /\ FnIdle
  /\ PublishIdle
  /\ indexPc = "start"
  /\ combined_file \in CombinedFiles
  /\ report_file = <<>>
  /\ IndexLocals

\* prices = calculator.load_prices_from_combined(); "if not prices: return"
LoadPrices ==
  /\ indexPc = "start"
  /\ prices' = load_prices_from_combined(combined_file)
  /\ indexPc' = IF prices' = <<>> THEN "nodata" ELSE "loaded"
  /\ UNCHANGED <<combined_file, hyperscaler_prices, neocloud_prices, assigned,
                 hyperscaler_data, index_data, report_file>>
  /\ UNCHANGED <<scrapeVars, publishVars>>
  /\ UNCHANGED <<runnerVars, fnVars>>

\* hyperscaler_prices, neocloud_prices = calculator.categorize_providers(prices)
Categorize ==
  /\ indexPc = "loaded"
  /\ LET c == categorize_providers(prices)
     IN  /\ hyperscaler_prices' = c.hyperscaler_prices
         /\ neocloud_prices' = c.neocloud_prices
         /\ assigned' = c.assigned
  /\ indexPc' = "categorized"
  /\ UNCHANGED <<combined_file, prices, hyperscaler_data, index_data,
                 report_file>>
  /\ UNCHANGED <<scrapeVars, publishVars>>
  /\ UNCHANGED <<runnerVars, fnVars>>

\* hyperscaler_data = calculator.apply_hyperscaler_discounts(hyperscaler_prices)
ApplyDiscounts ==
  /\ indexPc = "categorized"
  /\ \E rates \in [DOMAIN hyperscaler_prices -> DiscountRates] :
       hyperscaler_data' = apply_hyperscaler_discounts(hyperscaler_prices, rates)
  /\ indexPc' = "discounted"
  /\ UNCHANGED <<combined_file, prices, hyperscaler_prices, neocloud_prices,
                 assigned, index_data, report_file>>
  /\ UNCHANGED <<scrapeVars, publishVars>>
  /\ UNCHANGED <<runnerVars, fnVars>>

\* index_data = calculator.calculate_weighted_index(...);
\* calculator.save_index_report(index_data)
CalculateAndSave ==
  /\ indexPc = "discounted"
  /\ index_data' = <<calculate_weighted_index(hyperscaler_data, neocloud_prices)>>
  /\ report_file' = <<index_data'[1].report>>
  /\ indexPc' = "saved"
  /\ UNCHANGED <<combined_file, prices, hyperscaler_prices, neocloud_prices,
                 assigned, hyperscaler_data>>
  /\ UNCHANGED <<scrapeVars, publishVars>>
  /\ UNCHANGED <<runnerVars, fnVars>>

IndexNext == LoadPrices \/ Categorize \/ ApplyDiscounts \/ CalculateAndSave

SpecIndex == IndexInit /\ [][IndexNext]_vars

(***************************************************************************)
(* The publisher (push_to_supabase.py) and the pipeline runner             *)
(* (run_h200_pipeline.py).  Index prices are in cents.                     *)
(***************************************************************************)
\* the default of the tolerance parameter of validate_price, in percent
tolerance == 25

\* .order('created_at', desc=True).limit(2): the newest rows, newest first
LastTwo(rows) ==
  IF Len(rows) < 2 THEN rows ELSE <<rows[Len(rows)], rows[Len(rows) - 1]>>

\* is_valid = lower_bound <= new_price <= upper_bound
is_valid(last_prices, new_price) ==
  LET avg_price == Rat(last_prices[1] + last_prices[2], 2 * 100)
      lower_bound == RMul(avg_price, Rat(100 - tolerance, 100))
      upper_bound == RMul(avg_price, Rat(100 + tolerance, 100))
  IN  RLeq(lower_bound, Rat(new_price, 100)) /\ RLeq(Rat(new_price, 100), upper_bound)

\* validate_price; read is what the select of the last 2 prices did
validate_price(read, new_price) ==
  IF read.raised THEN [valid |-> TRUE, how |-> "error"]
  ELSE IF Len(read.data) < 2 THEN [valid |-> TRUE, how |-> "bootstrap"]
  ELSE IF is_valid(read.data, new_price) THEN [valid |-> TRUE, how |-> "accepted"]
  ELSE [valid |-> FALSE, how |-> "rejected"]

\* an exit status that does not depend on the outcome
ExitStatusIgnoringFailure(ok) == 0

\* push_to_supabase.main: "if not success: sys.exit(1)"
ExitStatus(ok) == IF ok THEN 0 ELSE 1

\* a run_step that reports every step as successful
run_step_blind(returncode) == TRUE

\* run_step: True iff the return code of the subprocess is 0
run_step(returncode) == returncode = 0

\* run_h200_pipeline.main: all_success over results, sys.exit(1) without it
PipelineExitStatus(step_results) ==
  IF \A j \in DOMAIN step_results : step_results[j].ok THEN 0 ELSE 1

MaxHistory == 3

\* index prices of earlier rows, in cents
HistoryPrices == {84, 140}

\* the tables the publisher can find
Histories == UNION {[1..n -> HistoryPrices] : n \in 0..MaxHistory}

MaxPipelineProviders == 1

\* the combined records the pipeline is run on
PipelineFiles == {f \in CombinedFiles : Len(f) <= MaxPipelineProviders}

\* a report left by an earlier run
StaleReport ==
  calculate_weighted_index(
    apply_hyperscaler_discounts(<<[k |-> "AWS", v |-> 791]>>, <<80>>),
    <<[k |-> "Civo", v |-> 299]>>).report

\* what the environment does to push_to_supabase() before the insert
PushEnvironments == {"no_credentials", "client_error", "read_ok", "read_raised"}

\* what the insert does: whether the row is stored, and the response
InsertOutcomes ==
  {o \in [stored : BOOLEAN, response : {"data", "empty", "raised"}] :
     o.response = "data" => o.stored}

PublishInit ==
  /\ ScrapeIdle
  /\ RunnerIdle
  /\ FnIdle
  /\ indexPc = "start"
  /\ combined_file \in PipelineFiles
  /\ report_file \in {<<>>, <<StaleReport>>}
  /\ IndexLocals
  /\ pipePc = "calc"
  /\ pushPc = "idle"
  /\ history \in Histories
  /\ PublishLocals

\* step 1 of the pipeline ends with a non-zero return code or a timeout:
\* "[ABORT] Pipeline aborted", sys.exit(1)
CalcStepFails ==
  /\ pipePc = "calc"
  /\ indexPc = "start"
  /\ indexPc' = "crashed"
  /\ pipeResults' = <<[step |-> "Index Calculation", ok |-> run_step(1)]>>
  /\ IF pipeResults'[1].ok
       THEN pipePc' = "push" /\ pushPc' = "load" /\ UNCHANGED pipeExit
       ELSE pipePc' = "done" /\ pipeExit' = 1 /\ UNCHANGED pushPc
  /\ UNCHANGED <<combined_file, prices, hyperscaler_prices, neocloud_prices,
                 assigned, hyperscaler_data, index_data, report_file>>
  /\ UNCHANGED <<history, validation, inserted, success, pushExit>>
  /\ UNCHANGED scrapeVars
  /\ UNCHANGED <<runnerVars, fnVars>>

\* step 1 of the pipeline returns 0; step 2 is started
CalcStepDone ==
  /\ pipePc = "calc"
  /\ indexPc \in {"saved", "nodata"}
  /\ pipeResults' = <<[step |-> "Index Calculation", ok |-> run_step(0)]>>
  /\ pipePc' = "push"
  /\ pushPc' = "load"
  /\ UNCHANGED <<history, validation, inserted, success, pushExit, pipeExit>>
  /\ UNCHANGED <<scrapeVars, indexVars>>
  /\ UNCHANGED <<runnerVars, fnVars>>

\* push_to_supabase.main: index_data = load_index_data();
\* "if not index_data: sys.exit(1)"
PushLoad ==
  /\ pushPc = "load"
  /\ IF report_file = <<>>
       THEN pushPc' = "done" /\ pushExit' = 1
       ELSE pushPc' = "validate" /\ UNCHANGED pushExit
  /\ UNCHANGED <<pipePc, history, validation, inserted, success, pipeResults,
                 pipeExit>>
  /\ UNCHANGED <<scrapeVars, indexVars>>
  /\ UNCHANGED <<runnerVars, fnVars>>

\* push_to_supabase() up to "if not validate_price(supabase, new_price)"
PushValidate ==
  /\ pushPc = "validate"
  /\ \E env \in PushEnvironments :
       IF env \in {"no_credentials", "client_error"}
         THEN /\ success' = "False"
              /\ pushPc' = "exit"
              /\ UNCHANGED validation
         ELSE LET new_price == report_file[1].final_index_price
                  v == validate_price([raised |-> env = "read_raised",
                                       data |-> LastTwo(history)], new_price)
              IN  /\ validation' = v.how
                  /\ IF v.valid
                       THEN pushPc' = "insert" /\ UNCHANGED success
                       ELSE pushPc' = "exit" /\ success' = "False"
  /\ UNCHANGED <<pipePc, history, inserted, pushExit, pipeResults, pipeExit>>
  /\ UNCHANGED <<scrapeVars, indexVars>>
  /\ UNCHANGED <<runnerVars, fnVars>>

\* push_to_supabase(): the insert and what it returns
PushInsert ==
  /\ pushPc = "insert"
  /\ \E o \in InsertOutcomes :
       LET new_price == report_file[1].final_index_price
       IN  /\ inserted' = Append(inserted, [index_price |-> new_price,
                                            persisted |-> history])
           /\ history' = IF o.stored THEN Append(history, new_price) ELSE history
           /\ success' = IF o.response = "data" THEN "True" ELSE "False"
  /\ pushPc' = "exit"
  /\ UNCHANGED <<pipePc, validation, pushExit, pipeResults, pipeExit>>
  /\ UNCHANGED <<scrapeVars, indexVars>>
  /\ UNCHANGED <<runnerVars, fnVars>>

\* push_to_supabase.main after push_to_supabase() returned
PushExit ==
  /\ pushPc = "exit"
  /\ pushExit' = ExitStatus(success = "True")
  /\ pushPc' = "done"
  /\ UNCHANGED <<pipePc, history, validation, inserted, success, pipeResults,
                 pipeExit>>
  /\ UNCHANGED <<scrapeVars, indexVars>>
  /\ UNCHANGED <<runnerVars, fnVars>>

\* step 2 of the pipeline has ended; the summary and the exit status
PipelineSummary ==
  /\ pipePc = "push"
  /\ pushPc = "done"
  /\ pipeResults' =
       Append(pipeResults, [step |-> "Supabase Push", ok |-> run_step(pushExit)])
  /\ pipeExit' = PipelineExitStatus(pipeResults')
  /\ pipePc' = "done"
  /\ UNCHANGED <<pushPc, history, validation, inserted, success, pushExit>>
  /\ UNCHANGED <<scrapeVars, indexVars>>
  /\ UNCHANGED <<runnerVars, fnVars>>

PublishNext ==
  \/ CalcStepFails
  \/ CalcStepDone
  \/ PushLoad
  \/ PushValidate
  \/ PushInsert
  \/ PushExit
  \/ PipelineSummary

SpecPublish == PublishInit /\ [][IndexNext \/ PublishNext]_vars

(***************************************************************************)
(* The runner: run_all_h200_scrapers.main.                                 *)
(***************************************************************************)
MaxScrapers == 2

\* the scraper files the directory can hold, in sorted(glob) order
RunnerPool == <<"AIME", "Akash", "AWS", "Oracle">>

\* find_all_scrapers: a sorted list of the scraper files found
FoundScrapers ==
  { SelectSeq(RunnerPool, LAMBDA s : s \in S) :
      S \in {T \in SUBSET Range(RunnerPool) : Cardinality(T) <= MaxScrapers} }

\* the price_per_hour of a record file left by an earlier run, in mills
StalePrice(s) == 2000 + Band(s)[1]

\* the *_h200_prices.json files before the run: -1 where there is none
StaleFiles ==
  { [j \in DOMAIN RunnerPool |->
       [k |-> RunnerPool[j],
        v |-> IF RunnerPool[j] \in S THEN StalePrice(RunnerPool[j]) ELSE -1]]
      : S \in SUBSET Range(RunnerPool) }

\* what get_h200_prices of a scraper that runs to its end can return: its
\* first strategy's validated result, or what the code after the loop makes
\* of no result
GetPricesReturns(s) ==
  { AfterLoop(s, AcceptPrices(s, <<>>, o.prices, 10800)) :
      o \in {x \in Outcomes(s, Methods(s)[1]) :
               ~x.raised /\ x.prices # <<>> /\ _validate_prices(s, x.prices)} }
  \cup {AfterLoop(s, <<>>)}

\* what a scraper process can do: end with exit status 0, with the record
\* it wrote (-1: none written); end with another status; run into the
\* timeout; fail to start. AIME can also end with exit status 0 because it
\* got no exchange rate
ProcessOutcomes(s) ==
  { [how |-> "exit0",
     wrote |-> IF r # <<>> THEN SavedPrice(s, r, 0) ELSE -1,
     no_rate |-> FALSE]
      : r \in GetPricesReturns(s) }
  \cup { [how |-> h, wrote |-> -1, no_rate |-> FALSE]
           : h \in {"nonzero", "timeout", "launch_error"} }
  \cup (IF s = "AIME"
          THEN {[how |-> "exit0", wrote |-> -1, no_rate |-> TRUE]}
          ELSE {})

\* a run_scraper without the except clauses
run_scraper_uncaught(o) ==
  [ok |-> o.how = "exit0", escaped |-> o.how \in {"timeout", "launch_error"}]

\* run_scraper: True for return code 0; False for another return code, for
\* TimeoutExpired and for any other exception
run_scraper(o) == [ok |-> o.how = "exit0", escaped |-> FALSE]

\* combine_prices: one entry per record file with a price > 0, in sorted file
\* order, the price rounded to 2 decimals (in cents)
RECURSIVE combine_prices(_)
combine_prices(files) ==
  IF files = <<>> THEN <<>>
  ELSE LET f == Head(files)
       IN  (IF f.v > 0 THEN <<[k |-> f.k, v |-> RoundHalfEven(f.v, 10)]>>
            ELSE <<>>) \o combine_prices(Tail(files))

\* H200ScraperRunner() in an arbitrary directory
RunAllInit ==
  /\ ScrapeIdle /\ IndexIdle /\ PublishIdle /\ FnIdle
  /\ runPc = "find"
  /\ scrapers = <<>>
  /\ runIdx = 1
  /\ runResults = <<>>
  /\ runOutcomes = <<>>
  /\ price_files \in StaleFiles

\* scrapers = self.find_all_scrapers(); results = {}
FindScrapers ==
  /\ runPc = "find"
  /\ scrapers' \in FoundScrapers
  /\ runPc' = "scrapers"
  /\ UNCHANGED <<runIdx, runResults, runOutcomes, price_files>>
  /\ UNCHANGED <<scrapeVars, indexVars, publishVars, fnVars>>

\* one iteration of "for scraper in scrapers:
\*                     results[scraper.name] = self.run_scraper(scraper)"
RunScraper ==
  /\ runPc = "scrapers"
  /\ runIdx <= Len(scrapers)
  /\ \E o \in ProcessOutcomes(scrapers[runIdx]) :
       LET s == scrapers[runIdx]
           r == run_scraper(o)
       IN  /\ runOutcomes' = Append(runOutcomes,
                                    [k |-> s, v |-> o.how, wrote |-> o.wrote,
                                     no_rate |-> o.no_rate])
           /\ price_files' = IF o.wrote # -1
                               THEN Put(price_files, [k |-> s, v |-> o.wrote])
                               ELSE price_files
           /\ IF r.escaped
                THEN /\ runPc' = "escaped"
                     /\ UNCHANGED <<runIdx, runResults>>
                ELSE /\ runResults' = Put(runResults, [k |-> s, v |-> r.ok])
                     /\ runIdx' = runIdx + 1
                     /\ UNCHANGED runPc
  /\ UNCHANGED scrapers
  /\ UNCHANGED <<scrapeVars, indexVars, publishVars, fnVars>>

\* the loop is over: the summary, combined = runner.combine_prices(),
\* runner.save_combined(combined)
CombineAndSave ==
  /\ runPc = "scrapers"
  /\ runIdx > Len(scrapers)
  /\ combined_file' = combine_prices(price_files)
  /\ runPc' = "done"
  /\ UNCHANGED <<scrapers, runIdx, runResults, runOutcomes, price_files>>
  /\ UNCHANGED <<indexPc, prices, hyperscaler_prices, neocloud_prices,
                 assigned, hyperscaler_data, index_data, report_file>>
  /\ UNCHANGED <<scrapeVars, publishVars, fnVars>>

RunAllNext == FindScrapers \/ RunScraper \/ CombineAndSave

\* every scraper process ends (subprocess.run has timeout=120) and the loop
\* is over a finite list, so main is not held up for ever
SpecRunAll == RunAllInit /\ [][RunAllNext]_vars /\ WF_vars(RunAllNext)

(***************************************************************************)
(* Single calls of methods, on arguments drawn from their domains.         *)
(***************************************************************************)
\* prices, in mills, on and next to the two edges of the band of scraper s,
\* as a string with two decimals carries them
EdgePrices(s) ==
  {Band(s)[1] - 10, Band(s)[1], Band(s)[1] + 10,
   Band(s)[2] - 10, Band(s)[2], Band(s)[2] + 10}

\* calls of _validate_prices on a candidate set with one price
ValidateCalls ==
  UNION {
    {[fn |-> "_validate_prices",
      args |-> [s |-> s,
                prices |-> <<Entry("H200", IF s = "AIME" THEN "E" ELSE "$", p)>>]]
       : p \in EdgePrices(s)}
    : s \in Scrapers }

\* instance or row prices a page can show, in mills, and GPU counts
RawPrices == AWSInstancePrices \cup AzureUnitPrices \cup CTHTotalPrices

GpuCounts == {1, 2, 4, 8}

\* the division of a raw price by a GPU count in an extraction strategy
PerGpuCalls ==
  {[fn |-> "per_gpu_price", args |-> [raw |-> raw, gpus |-> gpus]]
     : raw \in RawPrices, gpus \in GpuCounts}

\* the subsequences of a sequence of at most two entries
SubSeqs(entries) ==
  { SelectSeq(entries, LAMBDA e : e \in S) : S \in SUBSET Range(entries) }

\* cohorts a caller can pass to calculate_weighted_index: with and without
\* a provider that is in the cohort's weight table, and one that is not
HyperscalerInputs ==
  SubSeqs(<<[k |-> "AWS", v |-> 791], [k |-> "IBM Cloud", v |-> 900]>>)

NeocloudInputs ==
  SubSeqs(<<[k |-> "Civo", v |-> 299], [k |-> "Velocity", v |-> 350]>>)

\* the names of a set as the keys of a dict, each with the same price
RECURSIVE PricedAt(_, _)
PricedAt(names, cents) ==
  IF names = {} THEN <<>>
  ELSE LET n == CHOOSE x \in names : TRUE
       IN  <<[k |-> n, v |-> cents]>> \o PricedAt(names \ {n}, cents)

\* neoclouds that are not keys of neocloud_weights
UnlistedNeoclouds ==
  {"Cloud A", "Cloud B", "Cloud C", "Cloud D", "Cloud E", "Cloud F", "Cloud G"}

\* a neocloud cohort with every listed provider and seven unlisted ones
ManyNeoclouds == PricedAt(NeocloudNames \cup UnlistedNeoclouds, 300)

WeightedIndexCalls ==
  {[fn |-> "calculate_weighted_index",
    args |-> [hyperscaler_data |->
                apply_hyperscaler_discounts(h, [j \in DOMAIN h |-> r]),
              neocloud_prices |-> n]]
     : h \in HyperscalerInputs, n \in NeocloudInputs, r \in DiscountRates}
  \cup
  {[fn |-> "calculate_weighted_index",
    args |-> [hyperscaler_data |-> <<>>, neocloud_prices |-> ManyNeoclouds]]}

Calls == ValidateCalls \cup PerGpuCalls \cup WeightedIndexCalls

CallsInit ==
  /\ ScrapeIdle
  /\ IndexIdle
  /\ PublishIdle
  /\ RunnerIdle
  /\ fnPc = "call"
  /\ \E c \in Calls : fn = c.fn /\ fnArgs = c.args
  /\ fnResult = <<>>

\* self._validate_prices(prices)
CallValidate ==
  /\ fnPc = "call"
  /\ fn = "_validate_prices"
  /\ fnResult' = <<_validate_prices(fnArgs.s, fnArgs.prices)>>
  /\ fnPc' = "done"
  /\ UNCHANGED <<fn, fnArgs>>
  /\ UNCHANGED <<scrapeVars, indexVars, publishVars, runnerVars>>

\* per_gpu_price = price / 8 (ComputeThisHub: total_price / gpu_count) and
\* the string that carries it forward
CallPerGpu ==
  /\ fnPc = "call"
  /\ fn = "per_gpu_price"
  /\ fnResult' = <<PerGpuPrice(fnArgs.raw, fnArgs.gpus)>>
  /\ fnPc' = "done"
  /\ UNCHANGED <<fn, fnArgs>>
  /\ UNCHANGED <<scrapeVars, indexVars, publishVars, runnerVars>>

\* calculator.calculate_weighted_index(hyperscaler_data, neocloud_prices)
CallWeightedIndex ==
  /\ fnPc = "call"
  /\ fn = "calculate_weighted_index"
  /\ fnResult' = <<calculate_weighted_index(fnArgs.hyperscaler_data,
                                            fnArgs.neocloud_prices).report>>
  /\ fnPc' = "done"
  /\ UNCHANGED <<fn, fnArgs>>
  /\ UNCHANGED <<scrapeVars, indexVars, publishVars, runnerVars>>

CallsNext == CallValidate \/ CallPerGpu \/ CallWeightedIndex

SpecCalls == CallsInit /\ [][CallsNext]_vars

(***************************************************************************)
(* Claims about the extraction pipeline (SpecScrape).                      *)
(***************************************************************************)
\* invocation j returned a non-empty candidate set that passed validation
ValidAt(j) ==
  /\ ~results[j].raised
  /\ results[j].prices # <<>>
  /\ _validate_prices(scraper, results[j].prices)

NoneValid == \A j \in DOMAIN results : ~ValidAt(j)

Finished == scraperPc \in {"returned", "done"}

\* what get_h200_prices returns when it is derived from the candidate set X alone
DerivedFrom(X) ==
  IF scraper \in WithKnownPricing THEN _normalize_prices(scraper, X)
  ELSE IF scraper = "AIME" THEN ConvertEUR(<<>>, X, eur_to_usd)
  ELSE X

\* C1: the strategies are invoked in list order, each at most once; once an
\* invocation returns a validated candidate set no later strategy is invoked,
\* and the returned prices are derived from that set only.
C1_ShortCircuit ==
  /\ Len(called) <= Len(Methods(scraper))
  /\ \A j \in DOMAIN called : called[j] = Methods(scraper)[j]
  /\ \A j \in DOMAIN results : ValidAt(j) => Len(called) = j
  /\ Finished =>
       \A j \in DOMAIN results : ValidAt(j) => returned = DerivedFrom(results[j].prices)

\* [A fails, B returns valid X], a third strategy C exists and was never called
C1_Witness ==
  /\ scraperPc = "done"
  /\ Len(Methods(scraper)) >= 3
  /\ Len(called) = 2
  /\ ~ValidAt(1)
  /\ ValidAt(2)
  /\ record > 0

\* C2: when every strategy failed to yield a validated candidate set, the run
\* still returns a (static, known) price and writes a usable record.
C2_FallbackGuarantee ==
  (scraperPc = "done" /\ Len(called) = Len(Methods(scraper)) /\ NoneValid)
    => (returned # <<>> /\ record > 0)

\* the outcome of a run in which every strategy returned nothing
NothingFoundOutcome(s) ==
  CASE s = "AWS" -> <<Entry("P5en.48xlarge (AWS)", "$", 7910)>>
    [] s = "Azure" -> <<Entry("ND96isr_H200_v5 (Azure)", "$", 13430)>>
    [] s = "GCP" -> <<Entry("A3-Ultra (GCP)", "$", 11070)>>
    [] s = "Oracle" -> <<Entry("BM.GPU.H200.8 (Oracle)", "$", 10000)>>
    [] OTHER -> <<>>

\* C3: an exception raised by a strategy never leaves get_h200_prices, the
\* next strategy is still attempted, and a run with raising strategies and no
\* validated result ends as a run in which every strategy returned nothing.
C3_ExceptionContained ==
  /\ scraperPc # "escaped"
  /\ Finished =>
       \A j \in DOMAIN results :
         (results[j].raised /\ j < Len(Methods(scraper))) => Len(called) > j
  /\ (Finished /\ NoneValid /\ \E j \in DOMAIN results : results[j].raised)
       => /\ Len(called) = Len(Methods(scraper))
          /\ returned = NothingFoundOutcome(scraper)

\* the first strategy raised, a later one was attempted, none succeeded
C3_Witness ==
  /\ scraperPc = "done"
  /\ Len(called) >= 2
  /\ results[1].raised
  /\ NoneValid

\* the entries of a candidate set that enter the recorded price
Contributing(X) ==
  {X[j].v.mills : j \in {i \in DOMAIN X :
      /\ HasDollarPrice(X[i].v)
      /\ (scraper \in WithKnownPricing \/ ~StartsWithUnderscore(X[i].k))}}

\* C10: every candidate that contributes to the recorded price lies strictly
\* inside the provider's band, and so does the recorded price of a run whose
\* price comes from a strategy (AIME aside, whose band is in EUR).
C10_OnlyInBandCandidates ==
  (scraperPc = "done" /\ record >= 0 /\ scraper # "AIME")
    => \A j \in DOMAIN results :
         ValidAt(j) => /\ \A p \in Contributing(results[j].prices) : InBand(scraper, p)
                       /\ InBand(scraper, record)

(***************************************************************************)
(* Claims about the index engine (SpecIndex).                              *)
(***************************************************************************)
RECURSIVE RatSum(_)
RatSum(xs) == IF xs = <<>> THEN <<0, 1>> ELSE RAdd(Head(xs), RatSum(Tail(xs)))

\* per present hyperscaler: its intra-cohort weight w_i, and w_i * p_i with
\* p_i its effective price
HyperscalerW ==
  [j \in DOMAIN hyperscaler_data |->
     Rat(hyperscaler_weights(hyperscaler_data[j].k), 1000)]

HyperscalerWP ==
  [j \in DOMAIN hyperscaler_data |->
     RMul(HyperscalerW[j], hyperscaler_data[j].effective_price)]

\* per present neocloud: its intra-cohort weight w_i, and w_i * p_i
NeocloudW ==
  [j \in DOMAIN neocloud_prices |->
     Rat(neocloud_weights(neocloud_prices[j].k), 1000)]

NeocloudWP ==
  [j \in DOMAIN neocloud_prices |->
     RMul(NeocloudW[j], Rat(neocloud_prices[j].v, 100))]

\* cohort_total_weight * sum(w_i * p_i) / sum(w_i)
ScaledAverage(total, wp, w) == RMul(total, RDiv(RatSum(wp), RatSum(w)))

\* the weights of the present providers sum to less than the cohort's whole
Partial(w) == w # <<>> /\ RLess(RatSum(w), <<1, 1>>)

\* C4: in a computed index, a cohort with at least one present provider whose
\* used weights sum to less than the cohort total weight has as component the
\* cohort total weight times the weighted average sum(w_i*p_i)/sum(w_i) of
\* the present providers' prices.
C4_Renormalization ==
  indexPc = "saved" =>
    /\ Partial(HyperscalerW) =>
         /\ index_data[1].hyperscaler_weighted_sum =
              ScaledAverage(Pct(hyperscaler_total_weight), HyperscalerWP,
                            HyperscalerW)
         /\ report_file[1].hyperscaler_component =
              Round(ScaledAverage(Pct(hyperscaler_total_weight), HyperscalerWP,
                                  HyperscalerW), 4)
    /\ Partial(NeocloudW) =>
         /\ index_data[1].neocloud_weighted_sum =
              ScaledAverage(Pct(neocloud_total_weight), NeocloudWP, NeocloudW)
         /\ report_file[1].neocloud_component =
              Round(ScaledAverage(Pct(neocloud_total_weight), NeocloudWP,
                                  NeocloudW), 4)

\* both cohorts are partially present, and the hyperscaler component is above
\* the sum of the weighted contributions it was accumulated from
C4_Witness ==
  /\ indexPc = "saved"
  /\ Partial(HyperscalerW)
  /\ Partial(NeocloudW)
  /\ Len(hyperscaler_data) >= 2
  /\ RLess(RMul(Pct(hyperscaler_total_weight), RatSum(HyperscalerWP)),
           index_data[1].hyperscaler_weighted_sum)

\* C5: every report has final_index_price equal to hyperscaler_component +
\* neocloud_component up to the rounding of the three fields: in units of
\* 10^-4 USD, half a cent for the index and half a unit for each component.
C5_IndexIsSumOfComponents ==
  indexPc = "saved" =>
    Abs(100 * report_file[1].final_index_price
          - (report_file[1].hyperscaler_component
               + report_file[1].neocloud_component)) <= 50 + 1

\* a report with an empty hyperscaler cohort and a positive index
C5_Witness ==
  /\ indexPc = "saved"
  /\ report_file[1].hyperscaler_count = 0
  /\ report_file[1].neocloud_count >= 2
  /\ report_file[1].neocloud_component > 0
  /\ report_file[1].final_index_price > 0

\* the aliases of the table, flattened in table order, each with its owner
RECURSIVE FlatAliases(_)
FlatAliases(table) ==
  IF table = <<>> THEN <<>>
  ELSE [j \in DOMAIN Head(table).aliases |->
          [alias |-> Head(table).aliases[j], owner |-> Head(table).name]]
       \o FlatAliases(Tail(table))

\* a occurs in cs as a contiguous run of characters
RECURSIVE Contains(_, _)
Contains(cs, a) ==
  IF Len(a) > Len(cs) THEN FALSE
  ELSE IF SubSeq(cs, 1, Len(a)) = a THEN TRUE
  ELSE Contains(Tail(cs), a)

\* the positions of the flattened table whose alias the name contains
Matching(provider) ==
  {j \in DOMAIN FlatAliases(hyperscaler_aliases) :
     Contains(Strip(Lower(Chars(provider))),
              Chars(FlatAliases(hyperscaler_aliases)[j].alias))}

FirstOf(S) == CHOOSE j \in S : \A i \in S : j <= i

\* C8: when it returns, categorize_providers has assigned every input
\* provider to exactly one cohort: Hyperscaler, under the owner of the first
\* alias in table order that its lower-cased trimmed name contains, if there
\* is one, and Neocloud under its own name otherwise.
C8_TotalClassification ==
  indexPc = "categorized" =>
    /\ Len(assigned) = Len(prices)
    /\ \A j \in DOMAIN prices :
         /\ assigned[j].provider = prices[j].k
         /\ IF Matching(prices[j].k) # {}
              THEN /\ assigned[j].cohort = "Hyperscaler"
                   /\ assigned[j].key =
                        FlatAliases(hyperscaler_aliases)
                          [FirstOf(Matching(prices[j].k))].owner
                   /\ assigned[j].key \in Keys(hyperscaler_prices)
                   /\ prices[j].k \notin Keys(neocloud_prices)
              ELSE /\ assigned[j].cohort = "Neocloud"
                   /\ assigned[j].key = prices[j].k
                   /\ prices[j].k \in Keys(neocloud_prices)
                   /\ prices[j].k \notin Keys(hyperscaler_prices)

\* a name with surrounding blanks and capitals that contains aliases of two
\* hyperscalers goes to the one earlier in the table, a name that contains an
\* alias inside a word is a hyperscaler, and a name without alias is a neocloud
C8_Witness ==
  /\ indexPc = "categorized"
  /\ \E j \in DOMAIN assigned :
       /\ assigned[j].provider = " Oracle Azure "
       /\ assigned[j].key = "Azure"
  /\ \E j \in DOMAIN assigned :
       /\ assigned[j].provider = "Velocity"
       /\ assigned[j].key = "Oracle"
  /\ \E j \in DOMAIN assigned : assigned[j].cohort = "Neocloud"

\* C9: every entry apply_hyperscaler_discounts returns keeps the list price p as
\* original_price, has a discount rate d in [discount_min, discount_max],
\* discounted_price = p * (1 - d) and effective_price = 0.80 *
\* discounted_price + 0.20 * p; p = 10 and d = 0.80 give 2.00 and 3.60.
C9_DiscountBlend ==
  indexPc = "discounted" =>
    /\ Len(hyperscaler_data) = Len(hyperscaler_prices)
    /\ \A j \in DOMAIN hyperscaler_data :
         LET e == hyperscaler_data[j]
             p == Rat(hyperscaler_prices[j].v, 100)
         IN  /\ e.k = hyperscaler_prices[j].k
             /\ e.original_price = p
             /\ 70 <= e.discount_rate /\ e.discount_rate <= 90
             /\ e.discounted_price = RMul(p, Rat(100 - e.discount_rate, 100))
             /\ e.effective_price =
                  RAdd(RMul(Rat(80, 100), e.discounted_price),
                       RMul(Rat(20, 100), p))
             /\ (p = <<10, 1>> /\ e.discount_rate = 80) =>
                  /\ e.discounted_price = <<2, 1>>
                  /\ e.effective_price = <<18, 5>>

\* the example: list price 10.00 discounted at 0.80
C9_Witness ==
  /\ indexPc = "discounted"
  /\ \E j \in DOMAIN hyperscaler_data :
       /\ hyperscaler_data[j].original_price = <<10, 1>>
       /\ hyperscaler_data[j].discount_rate = 80
       /\ hyperscaler_data[j].discounted_price = <<2, 1>>
       /\ hyperscaler_data[j].effective_price = <<18, 5>>

(***************************************************************************)
(* Claims about the publisher and the pipeline (SpecPublish).              *)
(***************************************************************************)
\* new deviates from the mean of a and b by at most 25 percent, all in cents
WithinTolerance(a, b, new) ==
  /\ 75 * (a + b) <= 200 * new
  /\ 200 * new <= 125 * (a + b)

\* C6: every insert the publisher issues while at least 2 records are
\* persisted carries an index price within the tolerance (25 percent, bounds
\* included) of the mean of the 2 most recent persisted prices, on every
\* path, a failed read of the history included; with fewer than 2 persisted
\* records a price that was read against is inserted without validation.
C6_NeverInsertsOutOfTolerance ==
  /\ \A j \in DOMAIN inserted :
       LET rows == inserted[j].persisted
       IN  Len(rows) >= 2 =>
             WithinTolerance(rows[Len(rows)], rows[Len(rows) - 1],
                             inserted[j].index_price)
  /\ (validation = "bootstrap" /\ pushPc \in {"exit", "done"}) => inserted # <<>>

\* C7: once validation has rejected the new price no insert is issued and
\* the table is left as it was, push_to_supabase returns failure, and both
\* push_to_supabase.py and run_h200_pipeline.py end with a non-zero status.
C7_RejectionAbortsPublish ==
  /\ [](validation = "rejected" =>
          /\ inserted = <<>>
          /\ success = "False"
          /\ pushPc \in {"exit", "done"}
          /\ pushPc = "done" => pushExit # 0
          /\ pipePc = "done" => pipeExit # 0)
  /\ [][(validation = "rejected" \/ validation' = "rejected")
          => history' = history]_vars

\* the pipeline has ended after the new price was rejected against 2 rows
C7_Witness ==
  /\ validation = "rejected"
  /\ Len(history) >= 2
  /\ ~WithinTolerance(history[Len(history)], history[Len(history) - 1],
                      report_file[1].final_index_price)
  /\ pushPc = "done"
  /\ pushExit = 1
  /\ pipePc = "done"
  /\ pipeExit = 1

(***************************************************************************)
(* Claims about single calls (SpecCalls).                                  *)
(***************************************************************************)
\* C11: _validate_prices accepts a candidate set with one price p iff p lies
\* strictly between the two edges of the provider's band; a price equal to
\* an edge fails (AWS 3 < p < 20, Oracle 8 < p < 12, AIME 1.0 < p < 20.0).
C11_ExclusiveBounds ==
  (fnPc = "done" /\ fn = "_validate_prices") =>
    LET p == fnArgs.prices[1].v.mills
        lo == Band(fnArgs.s)[1]
        hi == Band(fnArgs.s)[2]
    IN  /\ fnResult[1] = (lo < p /\ p < hi)
        /\ p \in {lo, hi} => fnResult[1] = FALSE
        /\ fnArgs.s = "AWS" => fnResult[1] = (3000 < p /\ p < 20000)
        /\ fnArgs.s = "Oracle" => fnResult[1] = (8000 < p /\ p < 12000)
        /\ fnArgs.s = "AIME" => fnResult[1] = (1000 < p /\ p < 20000)

\* Oracle's candidate of exactly 8.00 was refused
C11_Witness ==
  /\ fnPc = "done"
  /\ fn = "_validate_prices"
  /\ fnArgs.s = "Oracle"
  /\ fnArgs.prices[1].v.mills = 8000
  /\ fnResult = <<FALSE>>

UsableApis == {i \in DOMAIN exchange_answers : exchange_answers[i] # 0}

\* C13: once AIME has fetched its exchange rate, the rate is the answer of
\* the first API in list order with a usable answer, the APIs before it were
\* queried once each and those after it not at all; when no API has a usable
\* answer, all were queried once, no strategy is called, nothing is returned
\* and no record is written.
C13_FirstUsableRateWins ==
  (scraper = "AIME" /\ scraperPc # "rate") =>
    IF UsableApis # {}
      THEN \E i \in UsableApis :
             /\ \A j \in UsableApis : i <= j
             /\ eur_to_usd = exchange_answers[i]
             /\ rateQueried = i
      ELSE /\ eur_to_usd = 0
           /\ rateQueried = Len(exchange_answers)
           /\ called = <<>>
           /\ returned = <<>>
           /\ record = -1

\* the first API failed, the second answered 1.08, the third would have
\* answered 1.10: the run converted with 1.08 and wrote a record
C13_Witness ==
  /\ scraper = "AIME"
  /\ scraperPc = "done"
  /\ exchange_answers = <<0, 10800, 11000>>
  /\ eur_to_usd = 10800
  /\ rateQueried = 2
  /\ record # -1

\* all three APIs failed: the run ended without a record
C13_NoRateWitness ==
  /\ scraper = "AIME"
  /\ scraperPc = "done"
  /\ exchange_answers = <<0, 0, 0>>
  /\ record = -1

\* what the loop keeps of the candidate set X of one invocation
TakenFrom(X) ==
  IF scraper = "AIME" THEN ConvertEUR(<<>>, X, eur_to_usd) ELSE X

\* the invocations whose candidate set was validated
ValidInvocations == {j \in DOMAIN results : ValidAt(j)}

\* C19: at every point of a run the prices accumulated by the loop are those
\* of one strategy invocation or none: invocations that raised, returned
\* nothing or were refused leave nothing behind, at most one invocation is
\* taken, and what is returned comes from that invocation alone or, when
\* there is none, from the static table alone (or is empty).
C19_NoMergeAcrossStrategies ==
  /\ Cardinality(ValidInvocations) <= 1
  /\ ValidInvocations = {} => h200_prices = <<>>
  /\ \A j \in ValidInvocations : h200_prices = TakenFrom(results[j].prices)
  /\ Finished =>
       IF ValidInvocations # {}
         THEN \E j \in ValidInvocations :
                returned = DerivedFrom(results[j].prices)
       ELSE IF scraper \in WithKnownPricing
         THEN returned = DerivedFrom(KnownPricing(scraper))
         ELSE returned = <<>>

\* the first strategy found nothing, the second raised, the third returned
\* two validated entries: both returned entries come from the third
C19_Witness ==
  /\ scraperPc = "done"
  /\ Len(called) = 3
  /\ results[1].prices = <<>>
  /\ ~results[1].raised
  /\ results[2].raised
  /\ ValidAt(3)
  /\ Len(results[3].prices) = 2
  /\ returned = DerivedFrom(results[3].prices)

(***************************************************************************)
(* Claims about the runner (SpecRunAll).                                   *)
(***************************************************************************)
\* how often scraper s was run
TimesRun(s) == Cardinality({j \in DOMAIN runOutcomes : runOutcomes[j].k = s})

\* every discovered scraper was run exactly once and has a result entry, and
\* the combined record was written from the record files
AllRunAndCombined ==
  /\ runPc = "done"
  /\ \A s \in Range(scrapers) : TimesRun(s) = 1 /\ s \in Keys(runResults)
  /\ Len(runOutcomes) = Len(scrapers)
  /\ \A j \in DOMAIN price_files :
       price_files[j].v > 0 => price_files[j].k \in Keys(combined_file)

\* C14: whatever the outcomes of the scraper processes, the run is never
\* aborted by one of them, no scraper is run twice, and eventually every
\* discovered scraper has been run exactly once, has a result entry, and
\* combine_prices has been executed.
C14_RunNeverAborted ==
  /\ [](runPc # "escaped" /\ \A s \in Range(scrapers) : TimesRun(s) <= 1)
  /\ <>AllRunAndCombined

\* a first scraper ran into the timeout, the second was still run and the
\* combined record was written
C14_Witness ==
  /\ AllRunAndCombined
  /\ Len(scrapers) = 2
  /\ runOutcomes[1].v = "timeout"
  /\ runOutcomes[2].v = "exit0"
  /\ runResults[1].v = FALSE
  /\ runResults[2].v = TRUE

\* the static known price of scraper s as the combined record would show it,
\* in cents
KnownPriceCents(s) == RoundHalfEven(SavedPrice(s, AfterLoop(s, <<>>), 0), 10)

\* C20: when the run is over, every scraper with known pricing whose process
\* exceeded the timeout is in the combined record with its static known
\* price, as if all its strategies had been exhausted.
C20_TimeoutFallsBackToKnownPrice ==
  runPc = "done" =>
    \A j \in DOMAIN runOutcomes :
      (runOutcomes[j].v = "timeout" /\ runOutcomes[j].k \in WithKnownPricing) =>
        \E i \in DOMAIN combined_file :
          /\ combined_file[i].k = runOutcomes[j].k
          /\ combined_file[i].v = KnownPriceCents(runOutcomes[j].k)

\* C21: when a run of the runner is over, a provider whose scraper could
\* not normalize its prices in this run (AIME without an exchange rate) has
\* no price in the run's combined record, whatever earlier runs left behind.
C21_NormalizationFailureContributesNothing ==
  runPc = "done" =>
    \A j \in DOMAIN runOutcomes :
      runOutcomes[j].no_rate => runOutcomes[j].k \notin Keys(combined_file)

\* the result entry of scraper s
ResultOf(s) == runResults[CHOOSE j \in DOMAIN runResults : runResults[j].k = s].v

\* C25: a scraper that run_all_scrapers reports as successful wrote a price
\* record in this run; one that wrote none (all its strategies failed and it
\* has no fallback) is reported as failed.
C25_SuccessMeansRecordWritten ==
  \A j \in DOMAIN runOutcomes :
    runOutcomes[j].k \in Keys(runResults) =>
      (ResultOf(runOutcomes[j].k) = TRUE => runOutcomes[j].wrote # -1)

(***************************************************************************)
(* Further claims about the pipeline and the publisher (SpecPublish).      *)
(***************************************************************************)
\* C15: a pipeline run in which the index engine found no price data at all
\* ends with a failed calculation step and a non-zero exit status, and has
\* published nothing.
C15_NoDataFailsRun ==
  (pipePc = "done" /\ indexPc = "nodata") =>
    /\ pipeResults[1].ok = FALSE
    /\ pipeExit # 0
    /\ inserted = <<>>

(***************************************************************************)
(* Further claims about the index engine (SpecIndex).                      *)
(***************************************************************************)
\* the sum of the configured weights of a set of names, in thousandths
RECURSIVE HyperscalerWeightSum(_)
HyperscalerWeightSum(names) ==
  IF names = {} THEN 0
  ELSE LET n == CHOOSE x \in names : TRUE
       IN  hyperscaler_weights(n) + HyperscalerWeightSum(names \ {n})

RECURSIVE NeocloudWeightSum(_)
NeocloudWeightSum(names) ==
  IF names = {} THEN 0
  ELSE LET n == CHOOSE x \in names : TRUE
       IN  neocloud_weights(n) + NeocloudWeightSum(names \ {n})

\* C16: in a newly constructed calculator the 5 hyperscaler weights sum to
\* 1.0, and the neocloud weights, the "default" entry included, sum to 1.0.
C16_WeightsSumToOne ==
  indexPc = "start" =>
    /\ HyperscalerWeightSum(HyperscalerNames) = 1000
    /\ NeocloudWeightSum(NeocloudNames \cup {"default"}) = 1000

\* the providers named in a details list
DetailProviders(details) == {details[j].provider : j \in DOMAIN details}

C18_EmptyCohortIsZero ==
  indexPc = "saved" =>
    /\ hyperscaler_data = <<>> =>
         /\ index_data[1].hyperscaler_weighted_sum = <<0, 1>>
         /\ report_file[1].hyperscaler_component = 0
         /\ report_file[1].hyperscaler_count = 0
         /\ report_file[1].final_index_price =
              Round(ScaledAverage(Pct(neocloud_total_weight), NeocloudWP,
                                  NeocloudW), 2)
    /\ neocloud_prices = <<>> =>
         /\ index_data[1].neocloud_weighted_sum = <<0, 1>>
         /\ report_file[1].neocloud_component = 0
         /\ report_file[1].neocloud_count = 0
         /\ report_file[1].final_index_price =
              Round(ScaledAverage(Pct(hyperscaler_total_weight), HyperscalerWP,
                                  HyperscalerW), 2)

\* an index from two hyperscalers and no neocloud
C18_Witness ==
  /\ indexPc = "saved"
  /\ neocloud_prices = <<>>
  /\ Len(hyperscaler_data) = 2
  /\ report_file[1].neocloud_component = 0
  /\ report_file[1].hyperscaler_component > 0
  /\ Abs(100 * report_file[1].final_index_price
           - report_file[1].hyperscaler_component) <= 50

\* the least and the greatest of a non-empty sequence of rationals
RMin(xs) == xs[CHOOSE i \in DOMAIN xs : \A j \in DOMAIN xs : RLeq(xs[i], xs[j])]

RMax(xs) == xs[CHOOSE i \in DOMAIN xs : \A j \in DOMAIN xs : RLeq(xs[j], xs[i])]

\* a component (in 10^-4 USD) lies between total * min and total * max of
\* the present prices, to the rounding of the component
WithinCohortBounds(component, total, present) ==
  /\ Round(RMul(total, RMin(present)), 4) - 1 <= component
  /\ component <= Round(RMul(total, RMax(present)), 4) + 1

\* C28: in the report of calculate_weighted_index the component of a
\* non-empty cohort lies between the cohort total weight times the least and
\* times the greatest present price (the effective price for hyperscalers).
C28_ComponentWithinPriceRange ==
  (fnPc = "done" /\ fn = "calculate_weighted_index") =>
    LET hs == fnArgs.hyperscaler_data
        nc == fnArgs.neocloud_prices
    IN  /\ hs # <<>> =>
             WithinCohortBounds(fnResult[1].hyperscaler_component,
                                Pct(hyperscaler_total_weight),
                                [j \in DOMAIN hs |-> hs[j].effective_price])
        /\ nc # <<>> =>
             WithinCohortBounds(fnResult[1].neocloud_component,
                                Pct(neocloud_total_weight),
                                [j \in DOMAIN nc |-> Rat(nc[j].v, 100)])

\* the same for the neocloud cohort alone when all present hyperscalers are
\* in the weight table
C28_NeocloudComponentWithinPriceRange ==
  (fnPc = "done" /\ fn = "calculate_weighted_index") =>
    LET nc == fnArgs.neocloud_prices
    IN  nc # <<>> =>
          WithinCohortBounds(fnResult[1].neocloud_component,
                             Pct(neocloud_total_weight),
                             [j \in DOMAIN nc |-> Rat(nc[j].v, 100)])

\* C27: categorize_providers loses no price: the two maps it returns have
\* together as many entries as the input, and every input price is the value
\* of the entry its provider was assigned to.
C27_CategorizeLosesNoPrice ==
  indexPc = "categorized" =>
    /\ Len(hyperscaler_prices) + Len(neocloud_prices) = Len(prices)
    /\ \A j \in DOMAIN prices :
         \E e \in Range(hyperscaler_prices) \cup Range(neocloud_prices) :
           e.k = assigned[j].key /\ e.v = prices[j].v

\* C29: every entry of apply_hyperscaler_discounts with list price p > 0 has
\* discounted_price <= effective_price <= p and 0.28 * p <= effective_price
\* <= 0.44 * p, whatever rate in [0.70, 0.90] was drawn for it.
C29_EffectivePriceRange ==
  indexPc = "discounted" =>
    \A j \in DOMAIN hyperscaler_data :
      LET e == hyperscaler_data[j]
          p == Rat(hyperscaler_prices[j].v, 100)
      IN  /\ RLess(<<0, 1>>, p)
          /\ RLeq(e.discounted_price, e.effective_price)
          /\ RLeq(e.effective_price, p)
          /\ RLeq(RMul(Rat(28, 100), p), e.effective_price)
          /\ RLeq(e.effective_price, RMul(Rat(44, 100), p))

\* two hyperscalers of one run, one discounted at 0.70 and one at 0.90: at
\* the upper and at the lower end of the range
C29_Witness ==
  /\ indexPc = "discounted"
  /\ Len(hyperscaler_data) = 2
  /\ hyperscaler_data[1].discount_rate = 70
  /\ hyperscaler_data[1].effective_price =
       RMul(Rat(44, 100), hyperscaler_data[1].original_price)
  /\ hyperscaler_data[2].discount_rate = 90
  /\ hyperscaler_data[2].effective_price =
       RMul(Rat(28, 100), hyperscaler_data[2].original_price)

\* C30: in a computed index every provider whose name is the name a scraper
\* of the repository writes into its record is either a hyperscaler (by an
\* alias) or a key of neocloud_weights, and its neocloud detail carries the
\* weight configured for that key, not the default one.
C30_ScraperProvidersHaveConfiguredWeight ==
  indexPc = "saved" =>
    \A j \in DOMAIN prices :
      prices[j].k \in Scrapers =>
        \/ assigned[j].cohort = "Hyperscaler"
        \/ /\ assigned[j].key \in NeocloudNames
           /\ \A i \in DOMAIN report_file[1].neocloud_details :
                report_file[1].neocloud_details[i].provider = assigned[j].key =>
                  report_file[1].neocloud_details[i].relative_weight # Rat(5, 1000)

(***************************************************************************)
(* Claims about the report of a computed index (SpecIndex).                *)
(***************************************************************************)
\* the sum of the weighted_contribution entries of a details list, and of
\* its absolute_weight entries
ContributionSum(details) ==
  RatSum([j \in DOMAIN details |-> details[j].weighted_contribution])

AbsoluteWeightSum(details) ==
  RatSum([j \in DOMAIN details |-> details[j].absolute_weight])

\* the cohort component rebuilt from the details: the contributions, scaled
\* by cohort total weight / used weight when less than the total was used
Reconstructed(details, total) ==
  IF details # <<>> /\ RLess(AbsoluteWeightSum(details), total)
    THEN RMul(ContributionSum(details),
              RDiv(total, AbsoluteWeightSum(details)))
    ELSE ContributionSum(details)

\* C22 as stated: in every report each cohort component equals the plain sum
\* of weighted_contribution over the cohort's details, to the rounding of
\* the component (one unit of 10^-4 USD).
C22_ComponentIsSumOfContributions ==
  indexPc = "saved" =>
    /\ Abs(report_file[1].hyperscaler_component
             - Round(ContributionSum(report_file[1].hyperscaler_details), 4)) <= 1
    /\ Abs(report_file[1].neocloud_component
             - Round(ContributionSum(report_file[1].neocloud_details), 4)) <= 1

\* C22: in every report each cohort component can be rebuilt from the
\* cohort's details alone: it is the sum of weighted_contribution, multiplied
\* by cohort total weight / sum of absolute_weight when the present weights
\* do not reach the cohort total, rounded to 4 decimals.
C22_ComponentReconstructible ==
  indexPc = "saved" =>
    /\ report_file[1].hyperscaler_component =
         Round(Reconstructed(report_file[1].hyperscaler_details,
                             Pct(hyperscaler_total_weight)), 4)
    /\ report_file[1].neocloud_component =
         Round(Reconstructed(report_file[1].neocloud_details,
                             Pct(neocloud_total_weight)), 4)

\* a report with one hyperscaler and one neocloud, each component well above
\* the sum of its contributions
C22_Witness ==
  /\ indexPc = "saved"
  /\ Len(report_file[1].hyperscaler_details) = 1
  /\ Len(report_file[1].neocloud_details) = 1
  /\ report_file[1].hyperscaler_component
       > 2 * Round(ContributionSum(report_file[1].hyperscaler_details), 4)
  /\ report_file[1].neocloud_component
       > 2 * Round(ContributionSum(report_file[1].neocloud_details), 4)

\* the neocloud component as a function of the loaded neocloud prices alone
NeocloudComponentOf(nc_prices) ==
  IF nc_prices = <<>> THEN <<0, 1>>
  ELSE LET w == [j \in DOMAIN nc_prices |->
                   Rat(neocloud_weights(nc_prices[j].k), 1000)]
           wp == [j \in DOMAIN nc_prices |->
                    RMul(w[j], Rat(nc_prices[j].v, 100))]
       IN  ScaledAverage(Pct(neocloud_total_weight), wp, w)

\* C23: whatever discount rates were drawn, each neocloud detail of a report
\* carries the loaded price of its provider unchanged, the neocloud component
\* is a function of the loaded neocloud prices alone, and with no hyperscaler
\* so is the whole index.
C23_NeocloudsUndiscounted ==
  indexPc = "saved" =>
    /\ Len(report_file[1].neocloud_details) = Len(neocloud_prices)
    /\ \A j \in DOMAIN neocloud_prices :
         /\ report_file[1].neocloud_details[j].provider = neocloud_prices[j].k
         /\ report_file[1].neocloud_details[j].price =
              Rat(neocloud_prices[j].v, 100)
         /\ \E i \in DOMAIN prices : prices[i] = neocloud_prices[j]
    /\ report_file[1].neocloud_component =
         Round(NeocloudComponentOf(neocloud_prices), 4)
    /\ hyperscaler_data = <<>> =>
         report_file[1].final_index_price =
           Round(NeocloudComponentOf(neocloud_prices), 2)

\* a report with two neoclouds and two hyperscalers that drew different
\* discount rates
C23_Witness ==
  /\ indexPc = "saved"
  /\ Len(neocloud_prices) = 2
  /\ Len(hyperscaler_data) = 2
  /\ hyperscaler_data[1].discount_rate = discount_min
  /\ hyperscaler_data[2].discount_rate = discount_max
  /\ report_file[1].neocloud_component > 0

(***************************************************************************)
(* Claims about the order and the outcomes of the pipeline's steps         *)
(* (SpecPublish).                                                          *)
(***************************************************************************)
\* C24: the publish step is started only by a step that has just recorded
\* the calculation step as successful; a calculation step that failed ends
\* the run with exit status 1, nothing pushed and no publish step ever
\* started; and a run whose publish step failed ends with the calculation
\* marked OK, the push marked FAIL and a non-zero exit status.
C24_PublishOnlyAfterCalculation ==
  /\ [][(pushPc = "idle" /\ pushPc' # "idle") =>
          /\ indexPc \in {"saved", "nodata"}
          /\ pipeResults' = <<[step |-> "Index Calculation", ok |-> TRUE]>>]_vars
  /\ [](indexPc = "crashed" =>
          /\ pipeResults = <<[step |-> "Index Calculation", ok |-> FALSE]>>
          /\ pipePc = "done"
          /\ pipeExit = 1
          /\ pushPc = "idle"
          /\ inserted = <<>>)
  /\ []((pipePc = "done" /\ pushPc = "done" /\ pushExit # 0) =>
          /\ pipeResults = <<[step |-> "Index Calculation", ok |-> TRUE],
                             [step |-> "Supabase Push", ok |-> FALSE]>>
          /\ pipeExit = 1)

\* a run whose calculation succeeded and whose push failed at the insert
C24_Witness ==
  /\ pipePc = "done"
  /\ indexPc = "saved"
  /\ pushPc = "done"
  /\ inserted # <<>>
  /\ success = "False"
  /\ pipeResults[1].ok
  /\ ~pipeResults[2].ok
  /\ pipeExit = 1

\* C26: every record the publish step inserted carries the index that the
\* calculation step of the same pipeline run computed; a report file left by
\* an earlier run is never published.
C26_PublishedIndexIsThisRuns ==
  \A j \in DOMAIN inserted :
    /\ indexPc = "saved"
    /\ index_data # <<>>
    /\ inserted[j].index_price = index_data[1].report.final_index_price

=============================================================================
